---------------------------- MODULE Spec2Model ----------------------------
(***************************************************************************)
(* Model of the site-wide crawler of seo-agent (src/src/site-crawler.ts):  *)
(* the crawl loop of crawlSite with its URL queue, known-URL set, batches  *)
(* of concurrent page fetches and link harvesting, together with the pure  *)
(* helpers it calls: normalizeUrl, parseRobotsTxtDisallow, isUrlDisallowed,*)
(* extractInternalUrls, isSameDomain, fetchSitemapUrls.                    *)
(*                                                                         *)
(* A URL string is modelled by the parts the code reads from it: scheme,   *)
(* host, path (a sequence of one-character strings), query (a sequence of  *)
(* <<key, value>> pairs) and fragment.  A string that `new URL` rejects is *)
(* a record with valid = FALSE.                                            *)
(***************************************************************************)
EXTENDS Integers, Sequences, FiniteSets, TLC

VARIABLES
    maxPages,          \* options.maxPages || DEFAULT_MAX_PAGES
    concurrency,       \* options.concurrency || DEFAULT_CONCURRENCY
    respectRobotsTxt,  \* options.respectRobotsTxt ?? true
    onPageCrawled,     \* the progress callback: "absent", "returns" or "throws"
    startUrl,          \* the seed URL
    robotsTxt,         \* result of fetchRobotsTxt: a text or Null
    disallowedPaths,   \* the parsed rule list
    sitemapUrls,       \* result of fetchSitemapUrls
    urlQueue,          \* pending URLs, in order
    discoveredUrls,    \* set of normalized forms of every known URL
    crawledPages,      \* CrawlResults of the successful fetches, in order
    failedPages,       \* URLs whose fetch (or callback) threw, in order
    batch,             \* the URLs of the batch in progress
    results,           \* per batch slot: "pending", "null" or a CrawlResult
    pc,                \* position of crawlSite
    dequeued,          \* history: every URL drawn from the queue, in order
    skipped,           \* history: the drawn URLs the robots check rejected
    fetchLog,          \* history: every URL handed to crawlPage, in order
    fetchThrew,        \* history: URLs whose crawlPage call threw
    inFlight,          \* history: crawlPage calls started and not yet settled
    callbackLog,       \* history: the <<url, index, total>> calls of onPageCrawled
    batchNo,           \* history: number of batches drawn so far
    harvestNo,         \* history: number of batches whose results were processed
    sleeps,            \* history: number of politeness delays taken
    pauses,            \* history: the durations passed to sleep, in order
    delayMs,           \* options.delayMs: given or not, and its value
    u1, u2, n1, n2,    \* inputs and outputs of the normalizeUrl specification
    robotsIn, urlIn,   \* inputs of the exclusion-filter specification
    rulesOut, verdict, \* its outputs: the parsed rules and isUrlDisallowed's answer
    report,            \* what the caller of crawlSite did with the result, or Null
    twin,              \* the two-run comparison: its fixed inputs and the first result
    agg,               \* analyzeSite: its pages, loop position, locals and result
    gen,               \* generateSiteWideIssues: its arguments and its result
    pageScore,         \* calculatePageScore: its argument and its result
    dom,               \* the same-domain filters: the two hostnames and the two answers
    entry,             \* an entry point: the raw maxPages it received and the value it hands on
    resolver,          \* fetchSitemapUrls as a process: its inputs, locals, fetch history and result
    site               \* the site crawled: the sitemaps and the link lists its server may answer with

crawlVars == <<maxPages, concurrency, respectRobotsTxt, onPageCrawled, startUrl,
               robotsTxt, disallowedPaths, sitemapUrls, urlQueue, discoveredUrls,
               crawledPages, failedPages, batch, results, pc, dequeued, skipped,
               fetchLog, fetchThrew, inFlight, callbackLog, batchNo, harvestNo, sleeps,
               pauses, delayMs>>
normVars == <<u1, u2, n1, n2>>
filterVars == <<robotsIn, urlIn, rulesOut, verdict>>
pureVars == <<normVars, filterVars>>
outerVars == <<report, twin, agg, gen, pageScore, dom, entry, resolver, site>>
vars == <<crawlVars, pureVars, outerVars>>

(***************************************************************************)
(* Bounds of the model.                                                    *)
(***************************************************************************)
MaxPagesBound == 2
MaxConcurrency == 2
MaxRobotsLines == 3

(***************************************************************************)
(* Sequence helpers.                                                       *)
(***************************************************************************)
\* Let(v, F) is F(v) with v computed once, as a `const` binding is
Let(v, F(_)) == CHOOSE r \in {F(bound) : bound \in {v}} : TRUE

Range(s) == {s[i] : i \in 1..Len(s)}

Min(a, b) == IF a <= b THEN a ELSE b

\* Array.prototype.slice(0, n)
Slice(s, n) == SubSeq(s, 1, Min(n, Len(s)))

\* String.prototype.startsWith on character sequences
StartsWith(s, prefix) ==
    \E str \in {s}, pre \in {prefix} :
        /\ Len(pre) <= Len(str)
        /\ SubSeq(str, 1, Len(pre)) = pre

EndsWith(s, suffix) ==
    \E str \in {s}, suf \in {suffix} :
        /\ Len(suf) <= Len(str)
        /\ SubSeq(str, Len(str) - Len(suf) + 1, Len(str)) = suf

\* String.prototype.toLowerCase on one token (a character or a whole word)
ToLowerCase(t) ==
    Let(t, LAMBDA token :
        CASE token = "A" -> "a"
          [] token = "B" -> "b"
          [] token = "P" -> "p"
          [] token = "X" -> "x"
          [] token = "ID" -> "id"
          [] token = "UTM_SOURCE" -> "utm_source"
          [] token = "Example" -> "example"
          [] token = "WWW" -> "www"
          [] token = "Googlebot" -> "googlebot"
          [] token = "User-agent" -> "user-agent"
          [] token = "User-Agent" -> "user-agent"
          [] token = "Disallow" -> "disallow"
          [] OTHER -> token)

LowerSeq(s) == Let(s, LAMBDA str : [i \in 1..Len(str) |-> ToLowerCase(str[i])])

\* null, as fetchRobotsTxt and fetchSitemap return it
Null == [null |-> TRUE]

\* site-crawler.ts line 14
DEFAULT_DELAY_MS == 500

\* options.delayMs left out, or given as ms
NotGiven == [given |-> FALSE, ms |-> 0]
Given(ms) == [given |-> TRUE, ms |-> ms]

(***************************************************************************)
(* URLs.                                                                   *)
(***************************************************************************)
Url(host, path, query, hash) ==
    [valid |-> TRUE, scheme |-> "https:", host |-> host, path |-> path,
     query |-> query, hash |-> hash]

\* new URL(url): the parser lower-cases the host and gives an empty path as "/".
\* The host is the sequence of its dot-separated labels.
ParseUrl(url) ==
    Let(url, LAMBDA u :
        [u EXCEPT !.host = LowerSeq(u.host),
                  !.path = IF u.path = <<>> THEN <<"/">> ELSE u.path])

TrackingParams == {"utm_source", "utm_medium", "utm_campaign", "ref", "fbclid", "gclid"}

\* URLSearchParams.set(key, value): the first pair with the key takes the
\* value and later pairs with the key are removed; otherwise it is appended
RECURSIVE DropKey(_, _)
DropKey(params, key) ==
    IF params = <<>> THEN <<>>
    ELSE IF Head(params)[1] = key THEN DropKey(Tail(params), key)
    ELSE <<Head(params)>> \o DropKey(Tail(params), key)

RECURSIVE ParamsSet(_, _, _)
ParamsSet(params, key, value) ==
    IF params = <<>> THEN << <<key, value>> >>
    ELSE IF Head(params)[1] = key
         THEN << <<key, value>> >> \o DropKey(Tail(params), key)
    ELSE <<Head(params)>> \o ParamsSet(Tail(params), key, value)

\* the loop of normalizeUrl over urlObj.searchParams
RECURSIVE ImportantParams(_, _)
ImportantParams(query, acc) ==
    IF query = <<>> THEN acc
    ELSE LET key == Head(query)[1]
             value == Head(query)[2]
         IN  ImportantParams(Tail(query),
                 IF key \notin TrackingParams THEN ParamsSet(acc, key, value) ELSE acc)

\* `${protocol}//${hostname}${pathname}`.replace(/\/$/, '')
StripTrailingSlash(path) ==
    Let(path, LAMBDA p :
        IF p # <<>> /\ p[Len(p)] = "/" THEN SubSeq(p, 1, Len(p) - 1) ELSE p)

LowerParams(params) ==
    Let(params, LAMBDA ps :
        [i \in 1..Len(ps) |-> <<ToLowerCase(ps[i][1]), ToLowerCase(ps[i][2])>>])

\* The normalized form of a URL.  The fragment is never read, so the form
\* carries an empty one; an invalid URL is lower-cased as a whole.
normalizeUrl(url) ==
    Let(url, LAMBDA u :
        IF ~u.valid
        THEN [u EXCEPT !.host = LowerSeq(u.host), !.path = LowerSeq(u.path),
                       !.query = LowerParams(u.query), !.hash = ToLowerCase(u.hash)]
        ELSE Let(ParseUrl(u), LAMBDA urlObj :
                 [valid |-> TRUE, scheme |-> urlObj.scheme, host |-> urlObj.host,
                  path |-> LowerSeq(StripTrailingSlash(urlObj.path)),
                  query |-> LowerParams(ImportantParams(urlObj.query, <<>>)),
                  hash |-> ""]))

(***************************************************************************)
(* Exclusion filter.                                                       *)
(***************************************************************************)
\* new RegExp('^' + disallowed.replace(/\*/g, '.*')) throws a SyntaxError
\* when the translated pattern is malformed; of the characters of the model
\* an unclosed "(" makes it so.
RegexCompiles(disallowed) == "(" \notin Range(disallowed)

\* regex.test(path) for the pattern '^' + disallowed with every * as .*
\* ("." matches any character, every other character matches itself)
RECURSIVE RegexTest(_, _)
RegexTest(pattern, path) ==
    IF pattern = <<>> THEN TRUE
    ELSE IF Head(pattern) = "*"
         THEN \E k \in 0..Len(path) :
                  RegexTest(Tail(pattern), SubSeq(path, k + 1, Len(path)))
    ELSE /\ path # <<>>
         /\ (Head(pattern) = "." \/ Head(pattern) = Head(path))
         /\ RegexTest(Tail(pattern), Tail(path))

\* the for loop of isUrlDisallowed; an exception leaves the loop and the
\* catch block falls through to `return false`
RECURSIVE DisallowedLoop(_, _)
DisallowedLoop(path, rules) ==
    IF rules = <<>> THEN FALSE
    ELSE LET disallowed == Head(rules)
         IN  IF disallowed = <<"/">> THEN TRUE
             ELSE IF StartsWith(path, disallowed) THEN TRUE
             ELSE IF "*" \in Range(disallowed)
                  THEN IF ~RegexCompiles(disallowed) THEN FALSE
                       ELSE IF RegexTest(disallowed, path) THEN TRUE
                       ELSE DisallowedLoop(path, Tail(rules))
             ELSE DisallowedLoop(path, Tail(rules))

isUrlDisallowed(url, disallowedPathsArg) ==
    \E u \in {url} :
        IF ~u.valid THEN FALSE
        ELSE \E path \in {ParseUrl(u).path} : DisallowedLoop(path, disallowedPathsArg)

\* agent.includes('bot')
IncludesBot(agent) == agent \in {"bot", "googlebot", "bingbot"}

\* the for loop of parseRobotsTxtDisallow.  A line is [name, agent, path]:
\* the trimmed text before the first colon, and the trimmed text after it as
\* read by a User-agent line (a token) and by a Disallow line (characters).
RECURSIVE ParseLines(_, _, _)
ParseLines(lines, isRelevantUserAgent, disallowed) ==
    IF lines = <<>> THEN disallowed
    ELSE LET line == Head(lines)
         IN  IF ToLowerCase(line.name) = "user-agent"
             THEN LET agent == ToLowerCase(line.agent)
                  IN  ParseLines(Tail(lines), agent = "*" \/ IncludesBot(agent), disallowed)
             ELSE IF isRelevantUserAgent /\ ToLowerCase(line.name) = "disallow"
                  THEN ParseLines(Tail(lines), isRelevantUserAgent,
                           IF line.path # <<>> THEN Append(disallowed, line.path)
                           ELSE disallowed)
             ELSE ParseLines(Tail(lines), isRelevantUserAgent, disallowed)

\* A mutant of parseRobotsTxtDisallow that blocks the whole site when there
\* is no robots.txt (fail-closed).
parseRobotsTxtDisallowFailClosed(robotsTxtArg) ==
    IF robotsTxtArg = Null \/ robotsTxtArg.lines = <<>> THEN << <<"/">> >>
    ELSE ParseLines(robotsTxtArg.lines, FALSE, <<>>)

parseRobotsTxtDisallow(robotsTxtArg) ==
    IF robotsTxtArg = Null \/ robotsTxtArg.lines = <<>> THEN <<>>
    ELSE ParseLines(robotsTxtArg.lines, FALSE, <<>>)

\* fetchRobotsTxt: the text of an ok response, null for any other response
\* and when fetch throws
fetchRobotsTxt(response) ==
    IF response.kind = "response" /\ response.ok THEN response.text ELSE Null

(***************************************************************************)
(* Sitemap resolver.                                                       *)
(***************************************************************************)
MAX_CHILD_SITEMAPS == 15

\* stripWww of isSameDomain: h.startsWith('www.') ? h.slice(4) : h
StripWww(h) ==
    Let(h, LAMBDA host : IF Len(host) >= 2 /\ host[1] = "www" THEN Tail(host) ELSE host)

\* s.endsWith('.' + b) on label sequences
EndsWithDot(h, b) == \E s \in {h}, base \in {b} : Len(s) > Len(base) /\ EndsWith(s, base)

isSameDomain(hostname, baseDomain) ==
    \E a \in {StripWww(LowerSeq(hostname))}, b \in {StripWww(LowerSeq(baseDomain))} :
        a = b \/ EndsWithDot(LowerSeq(hostname), b)

\* the sameDomain test of parsePageUrlsFromSitemap
SitemapSameDomain(hostname, baseDomain) ==
    LET domain == LowerSeq(hostname)
        base == LowerSeq(baseDomain)
    IN  \/ domain = base
        \/ EndsWithDot(domain, base)
        \/ IF Len(domain) >= 2 /\ domain[1] = "www"
           THEN Tail(domain) = StripWww(base)
           ELSE FALSE

RECURSIVE parsePageUrlsFromSitemap(_, _)
parsePageUrlsFromSitemap(locs, baseDomain) ==
    IF locs = <<>> THEN <<>>
    ELSE LET url == Head(locs)
             rest == parsePageUrlsFromSitemap(Tail(locs), baseDomain)
         IN  IF url.valid /\ SitemapSameDomain(ParseUrl(url).host, baseDomain)
             THEN <<url>> \o rest
             ELSE rest

\* lines 285-297 with a failed child discarding what the others gave
ChildStepLosing(child, allUrls, baseDomain, maxUrls) ==
    IF child.kind = "throws" \/ ~child.ok THEN <<>>
    ELSE allUrls \o Slice(parsePageUrlsFromSitemap(child.locs, baseDomain),
                          maxUrls - Len(allUrls))

\* lines 285-297: the loop body for one child sitemap; a child is the outcome
\* of fetch(loc): "throws", or a response with ok and locs
ChildStep(child, allUrls, baseDomain, maxUrls) ==
    IF child.kind = "throws" \/ ~child.ok THEN allUrls
    ELSE allUrls \o Slice(parsePageUrlsFromSitemap(child.locs, baseDomain),
                          maxUrls - Len(allUrls))

\* lines 283-298: the loop of fetchSitemapUrls over the child sitemaps
RECURSIVE ChildLoop(_, _, _, _)
ChildLoop(toFetch, allUrls, baseDomain, maxUrls) ==
    IF toFetch = <<>> \/ Len(allUrls) >= maxUrls THEN allUrls
    ELSE Let(ChildStep(Head(toFetch), allUrls, baseDomain, maxUrls),
             LAMBDA next : ChildLoop(Tail(toFetch), next, baseDomain, maxUrls))

\* sitemapContent is Null (fetchSitemap failed), a urlset with its <loc>
\* entries, or a sitemap index with the outcomes of fetching its children
fetchSitemapUrls(sitemapContent, baseDomain, maxUrls) ==
    IF sitemapContent = Null THEN <<>>
    ELSE IF sitemapContent.kind = "index"
         THEN ChildLoop(Slice(sitemapContent.children, MAX_CHILD_SITEMAPS), <<>>,
                        baseDomain, maxUrls)
    ELSE Slice(parsePageUrlsFromSitemap(sitemapContent.locs, baseDomain), maxUrls)

(***************************************************************************)
(* Link harvesting.                                                        *)
(***************************************************************************)
AssetExtensions ==
    { <<"j","p","g">>, <<"j","p","e","g">>, <<"p","n","g">>, <<"g","i","f">>,
      <<"s","v","g">>, <<"w","e","b","p">>, <<"i","c","o">>, <<"c","s","s">>,
      <<"j","s">>, <<"p","d","f">>, <<"z","i","p">>, <<"x","m","l">>,
      <<"j","s","o","n">>, <<"w","o","f","f">>, <<"w","o","f","f","2">>,
      <<"t","t","f">>, <<"e","o","t">> }

\* path.match(/\.(jpg|jpeg|...|eot)$/)
IsAssetPath(path) ==
    \E p \in {path} : \E ext \in AssetExtensions : EndsWith(p, <<".">> \o ext)

RECURSIVE extractInternalUrls(_, _, _)
extractInternalUrls(links, baseDomain, disallowedPathsArg) ==
    IF links = <<>> THEN <<>>
    ELSE LET rest == extractInternalUrls(Tail(links), baseDomain, disallowedPathsArg)
         IN  Let(Head(links), LAMBDA link :
                 IF /\ link.isInternal
                    /\ link.href.valid
                    /\ isSameDomain(ParseUrl(link.href).host, baseDomain)
                    /\ ~IsAssetPath(LowerSeq(ParseUrl(link.href).path))
                    /\ ~isUrlDisallowed(link.href, disallowedPathsArg)
                 THEN <<link.href>> \o rest
                 ELSE rest)

(***************************************************************************)
(* The inputs of the model: one site and what its server may answer.       *)
(***************************************************************************)
ExampleHost == <<"example", "com">>
Root == Url(ExampleHost, <<"/">>, <<>>, "")
PageA == Url(ExampleHost, <<"/", "a">>, <<>>, "")
PageB == Url(ExampleHost, <<"/", "b">>, <<>>, "")
PageC == Url(ExampleHost, <<"/", "c">>, <<>>, "")
PagePrivate == Url(ExampleHost, <<"/", "p">>, <<>>, "")
\* https://Example.com/a/?utm_source=x#top : the same identity as PageA
PageAVariant == Url(<<"Example", "com">>, <<"/", "a", "/">>, << <<"utm_source", "x">> >>, "top")
Foreign == Url(<<"other", "org">>, <<"/", "a">>, <<>>, "")

AgentLine(name, agent) == [name |-> name, agent |-> agent, path |-> <<>>]
RuleLine(name, path) == [name |-> name, agent |-> "", path |-> path]
Text(lines) == [null |-> FALSE, lines |-> lines]

RobotsTexts ==
    { Text(<<AgentLine("User-agent", "*"), RuleLine("Disallow", <<"/", "p">>)>>),
      Text(<<AgentLine("User-agent", "*"), RuleLine("Disallow", <<"/">>)>>),
      Text(<<AgentLine("User-agent", "*"), RuleLine("Disallow", <<"/", "*", "(">>),
             RuleLine("Disallow", <<"/", "p">>)>>) }

RobotsResponses ==
    {[kind |-> "throws"], [kind |-> "response", ok |-> FALSE]}
    \cup {[kind |-> "response", ok |-> TRUE, text |-> t] : t \in RobotsTexts}

SeqsUpTo(S, n) == UNION {[1..k -> S] : k \in 0..n}

Urlset(locs) == [kind |-> "urlset", locs |-> locs]

\* what fetchSitemap may return: nothing, a urlset, or an index with a failed
\* and a good child
SitemapContents ==
    { Null,
      Urlset(<<PageA, PageB>>),
      Urlset(<<PagePrivate, Foreign, PageA, PageB>>),
      Urlset(<<PageAVariant, PageA, Root, PageB, PagePrivate>>),
      [kind |-> "index",
       children |-> <<[kind |-> "throws"],
                      [kind |-> "response", ok |-> TRUE, locs |-> <<PageB, PageA>>]>>] }

Link(href, isInternal) == [href |-> href, isInternal |-> isInternal]

\* the link lists a fetched page may carry
LinkLists ==
    { <<>>,
      <<Link(PagePrivate, TRUE), Link(PageB, TRUE)>>,
      <<Link(PageAVariant, TRUE), Link(Root, TRUE), Link(Foreign, FALSE),
        Link(PageB, TRUE), Link(Foreign, TRUE), Link(PageC, TRUE)>> }

\* the site of the crawl: what its server may answer
ExampleSite == [sitemaps |-> SitemapContents, linkLists |-> LinkLists]

CrawlUrls == {Root, PageA, PageB, PageC, PagePrivate, PageAVariant, Foreign}

OnPageCrawledModes == {"absent", "returns", "throws"}

(***************************************************************************)
(* crawlSite.                                                              *)
(***************************************************************************)
Pending == [state |-> "pending"]
NoResult == [state |-> "null"]
CrawlResult(url, links) == [state |-> "page", url |-> url, links |-> links]

baseDomain == ParseUrl(startUrl).host

\* the variables of the pure-function specifications, at rest
PureIdle ==
    /\ u1 = Root /\ u2 = Root /\ n1 = Null /\ n2 = Null
    /\ robotsIn = Null /\ urlIn = Root /\ rulesOut = <<>> /\ verdict = FALSE

\* the variables outside crawlSite and its helpers, at rest
OuterIdle ==
    /\ report = Null
    /\ twin = Null
    /\ agg = Null
    /\ gen = Null
    /\ pageScore = Null
    /\ dom = Null
    /\ entry = Null
    /\ resolver = Null
    /\ site = ExampleSite

\* crawlSite at its start, for the given choices of options.delayMs
CrawlStart(delays) ==
    /\ maxPages \in 1..MaxPagesBound
    /\ concurrency \in 1..MaxConcurrency
    /\ respectRobotsTxt \in BOOLEAN
    /\ onPageCrawled \in OnPageCrawledModes
    /\ startUrl = Root
    /\ robotsTxt = Null
    /\ disallowedPaths = <<>>
    /\ sitemapUrls = <<>>
    /\ urlQueue = <<>>
    /\ discoveredUrls = {}
    /\ crawledPages = <<>>
    /\ failedPages = <<>>
    /\ batch = <<>>
    /\ results = <<>>
    /\ pc = "robots"
    /\ dequeued = <<>>
    /\ skipped = <<>>
    /\ fetchLog = <<>>
    /\ fetchThrew = {}
    /\ inFlight = {}
    /\ callbackLog = <<>>
    /\ batchNo = 0
    /\ harvestNo = 0
    /\ sleeps = 0
    /\ pauses = <<>>
    /\ delayMs \in delays

\* the state in which crawlSite starts on the example site
InitWith(delays) ==
    /\ CrawlStart(delays)
    /\ PureIdle
    /\ OuterIdle

\* the callers of the repository pass no delayMs
Init == InitWith({NotGiven})

options == <<maxPages, concurrency, respectRobotsTxt, onPageCrawled, startUrl, delayMs>>
history == <<dequeued, skipped, fetchLog, fetchThrew, inFlight, callbackLog, batchNo, harvestNo,
             sleeps, pauses>>

\* lines 62-65: fetch robots.txt and parse it
FetchRobots ==
    /\ pc = "robots"
    /\ \E response \in RobotsResponses :
          /\ robotsTxt' = fetchRobotsTxt(response)
          /\ disallowedPaths' = IF respectRobotsTxt
                                THEN parseRobotsTxtDisallow(fetchRobotsTxt(response))
                                ELSE <<>>
    /\ pc' = "sitemap"
    /\ UNCHANGED <<outerVars, options, sitemapUrls, urlQueue, discoveredUrls, crawledPages,
                   failedPages, batch, results, history, pureVars>>

\* A mutant of Offer without the 2 * maxPages ceiling.
OfferNoCeiling(frontier, url, ceiling) ==
    Let(normalizeUrl(url), LAMBDA normalized :
        IF normalized \notin frontier.known
        THEN [known |-> frontier.known \cup {normalized},
              queue |-> Append(frontier.queue, url)]
        ELSE frontier)

\* A mutant of Offer that enqueues the URL without recording its identity.
OfferUnrecorded(frontier, url, ceiling) ==
    Let(normalizeUrl(url), LAMBDA normalized :
        IF normalized \notin frontier.known /\ Cardinality(frontier.known) < ceiling
        THEN [known |-> frontier.known,
              queue |-> Append(frontier.queue, url)]
        ELSE frontier)

\* A mutant of Offer without the already-known test.
OfferNoDedup(frontier, url, ceiling) ==
    Let(normalizeUrl(url), LAMBDA normalized :
        IF Cardinality(frontier.known) < ceiling
        THEN [known |-> frontier.known \cup {normalized},
              queue |-> Append(frontier.queue, url)]
        ELSE frontier)

\* one admission test of the frontier (lines 137-140 with the ceiling, lines
\* 87-90 without it): frontier is [known, queue]
Offer(frontier, url, ceiling) ==
    Let(normalizeUrl(url), LAMBDA normalized :
        IF normalized \notin frontier.known /\ Cardinality(frontier.known) < ceiling
        THEN [known |-> frontier.known \cup {normalized},
              queue |-> Append(frontier.queue, url)]
        ELSE frontier)

\* the loops of lines 85-91 and 135-141
RECURSIVE OfferAll(_, _, _)
OfferAll(frontier, urls, ceiling) ==
    Let(urls, LAMBDA us :
        IF us = <<>> THEN frontier
        ELSE Let(Offer(frontier, Head(us), ceiling), LAMBDA next :
                 OfferAll(next, Tail(us), ceiling)))

\* no ceiling: larger than any known set the sitemap loop can build
NoCeiling(urls) == Len(urls) + 2

\* lines 79-91: the queue holds the seed and then the new sitemap URLs
SeedFrontier(seed, sitemap, limit) ==
    OfferAll([known |-> {normalizeUrl(seed)}, queue |-> <<seed>>],
             Slice(sitemap, limit), NoCeiling(sitemap))

\* lines 73-91: resolve the sitemap and seed the queue
FetchSitemap ==
    /\ pc = "sitemap"
    /\ \E sitemapContent \in site.sitemaps :
          LET found == fetchSitemapUrls(sitemapContent, baseDomain, maxPages)
              frontier == SeedFrontier(startUrl, found, maxPages)
          IN  /\ sitemapUrls' = found
              /\ urlQueue' = frontier.queue
              /\ discoveredUrls' = frontier.known
    /\ pc' = "loop"
    /\ UNCHANGED <<outerVars, options, robotsTxt, disallowedPaths, crawledPages, failedPages,
                   batch, results, history, pureVars>>

\* A mutant of LoopCondition that gives up one page before the budget.
LoopConditionEarly == urlQueue # <<>> /\ Len(crawledPages) < maxPages - 1

\* line 96
LoopCondition == urlQueue # <<>> /\ Len(crawledPages) < maxPages

\* line 98
BatchSize == Min(concurrency, maxPages - Len(crawledPages))

\* the URLs of a batch that pass the robots check of line 104, in order
RECURSIVE Fetched(_, _)
Fetched(urls, rules) ==
    IF urls = <<>> THEN <<>>
    ELSE IF isUrlDisallowed(Head(urls), rules) THEN Fetched(Tail(urls), rules)
    ELSE <<Head(urls)>> \o Fetched(Tail(urls), rules)

\* the URLs of a batch that the robots check rejects, in order
RECURSIVE Skipped(_, _)
Skipped(urls, rules) ==
    IF urls = <<>> THEN <<>>
    ELSE IF isUrlDisallowed(Head(urls), rules)
         THEN <<Head(urls)>> \o Skipped(Tail(urls), rules)
    ELSE Skipped(Tail(urls), rules)

\* lines 96-110: draw a batch; every async callback runs up to its first
\* await, so a disallowed URL resolves to null and for every other URL
\* crawlPage is called
DrawBatch ==
    /\ pc = "loop"
    /\ LoopCondition
    /\ LET drawn == Slice(urlQueue, BatchSize)
       IN  /\ batch' = drawn
           /\ urlQueue' = SubSeq(urlQueue, Len(drawn) + 1, Len(urlQueue))
           /\ results' = [i \in 1..Len(drawn) |->
                             IF isUrlDisallowed(drawn[i], disallowedPaths)
                             THEN NoResult ELSE Pending]
           /\ dequeued' = dequeued \o drawn
           /\ skipped' = skipped \o Skipped(drawn, disallowedPaths)
           /\ fetchLog' = fetchLog \o Fetched(drawn, disallowedPaths)
           /\ inFlight' = inFlight \cup Range(Fetched(drawn, disallowedPaths))
    /\ batchNo' = batchNo + 1
    /\ pc' = "batch"
    /\ UNCHANGED <<outerVars, options, robotsTxt, disallowedPaths, sitemapUrls, discoveredUrls,
                   crawledPages, failedPages, fetchThrew, callbackLog, harvestNo,
                   sleeps, pauses, pureVars>>

\* lines 110-118: crawlPage resolves; the callback, when present, is called
\* inside the try block, so its exception is handled by the catch of line 119
FetchSucceeds(i) ==
    /\ pc = "batch"
    /\ i \in DOMAIN results
    /\ results[i] = Pending
    /\ \E links \in site.linkLists :
          IF onPageCrawled = "throws"
          THEN /\ results' = [results EXCEPT ![i] = NoResult]
               /\ failedPages' = Append(failedPages, batch[i])
          ELSE /\ results' = [results EXCEPT ![i] = CrawlResult(batch[i], links)]
               /\ failedPages' = failedPages
    /\ callbackLog' = IF onPageCrawled = "absent" THEN callbackLog
                      ELSE Append(callbackLog, <<batch[i], Len(crawledPages) + 1, maxPages>>)
    /\ inFlight' = inFlight \ {batch[i]}
    /\ UNCHANGED <<outerVars, options, robotsTxt, disallowedPaths, sitemapUrls, urlQueue,
                   discoveredUrls, crawledPages, batch, pc, dequeued, skipped, fetchLog, fetchThrew,
                   batchNo, harvestNo, sleeps, pauses, pureVars>>

\* A mutant of FetchFails that puts the failed URL back on the queue.
FetchFailsRetry(i) ==
    /\ pc = "batch"
    /\ i \in DOMAIN results
    /\ results[i] = Pending
    /\ results' = [results EXCEPT ![i] = NoResult]
    /\ failedPages' = Append(failedPages, batch[i])
    /\ urlQueue' = Append(urlQueue, batch[i])
    /\ fetchThrew' = fetchThrew \cup {batch[i]}
    /\ inFlight' = inFlight \ {batch[i]}
    /\ UNCHANGED <<outerVars, options, robotsTxt, disallowedPaths, sitemapUrls,
                   discoveredUrls, crawledPages, batch, pc, dequeued, skipped,
                   fetchLog, callbackLog, batchNo, harvestNo, sleeps, pauses, pureVars>>

\* lines 119-123: crawlPage throws
FetchFails(i) ==
    /\ pc = "batch"
    /\ i \in DOMAIN results
    /\ results[i] = Pending
    /\ results' = [results EXCEPT ![i] = NoResult]
    /\ failedPages' = Append(failedPages, batch[i])
    /\ fetchThrew' = fetchThrew \cup {batch[i]}
    /\ inFlight' = inFlight \ {batch[i]}
    /\ UNCHANGED <<outerVars, options, robotsTxt, disallowedPaths, sitemapUrls, urlQueue,
                   discoveredUrls, crawledPages, batch, pc, dequeued, skipped, fetchLog, callbackLog,
                   batchNo, harvestNo, sleeps, pauses, pureVars>>

\* A mutant of AllSettled that waits for the first settled promise only.
AnySettled(rs) == \E i \in DOMAIN rs : rs[i] # Pending

\* Promise.allSettled (line 101)
AllSettled(rs) == \A i \in DOMAIN rs : rs[i] # Pending

\* lines 129-142: one fulfilled result with a value; acc is [pages, known, queue]
ProcessOne(result, acc, rules, limit) ==
    Let(extractInternalUrls(result.links, baseDomain, rules), LAMBDA newUrls :
        Let(OfferAll([known |-> acc.known, queue |-> acc.queue], newUrls, limit * 2),
            LAMBDA frontier :
                [pages |-> Append(acc.pages, result),
                 known |-> frontier.known,
                 queue |-> frontier.queue]))

\* lines 128-143: the results in batch order
RECURSIVE ProcessLoop(_, _, _, _)
ProcessLoop(rs, acc, rules, limit) ==
    IF rs = <<>> THEN acc
    ELSE Let(IF Head(rs).state = "page"
             THEN ProcessOne(Head(rs), acc, rules, limit)
             ELSE acc,
             LAMBDA next : ProcessLoop(Tail(rs), next, rules, limit))

\* lines 125-148: the batch has settled; process it and decide on the delay
ProcessResults ==
    /\ pc = "batch"
    /\ AllSettled(results)
    /\ \E acc \in {ProcessLoop(results,
                                [pages |-> crawledPages, known |-> discoveredUrls,
                                 queue |-> urlQueue],
                                disallowedPaths, maxPages)} :
          /\ crawledPages' = acc.pages
          /\ discoveredUrls' = acc.known
          /\ urlQueue' = acc.queue
          /\ pc' = IF acc.queue # <<>> /\ Len(acc.pages) < maxPages
                   THEN "sleep" ELSE "loop"
    /\ harvestNo' = harvestNo + 1
    /\ UNCHANGED <<outerVars, options, robotsTxt, disallowedPaths, sitemapUrls, failedPages,
                   batch, results, dequeued, skipped, fetchLog, fetchThrew, inFlight, callbackLog,
                   batchNo, sleeps, pauses, pureVars>>

\* line 47: options.delayMs || DEFAULT_DELAY_MS; undefined and 0 are falsy
DelayMs == IF ~delayMs.given \/ delayMs.ms = 0 THEN DEFAULT_DELAY_MS ELSE delayMs.ms

\* line 147
Sleep ==
    /\ pc = "sleep"
    /\ sleeps' = sleeps + 1
    /\ pauses' = Append(pauses, DelayMs)
    /\ pc' = "loop"
    /\ UNCHANGED <<outerVars, options, robotsTxt, disallowedPaths, sitemapUrls, urlQueue,
                   discoveredUrls, crawledPages, failedPages, batch, results,
                   dequeued, skipped, fetchLog, fetchThrew, inFlight, callbackLog, batchNo, harvestNo,
                   pureVars>>

\* lines 151-167: the loop condition fails and crawlSite returns
Return ==
    /\ pc = "loop"
    /\ ~LoopCondition
    /\ pc' = "done"
    /\ UNCHANGED <<outerVars, options, robotsTxt, disallowedPaths, sitemapUrls, urlQueue,
                   discoveredUrls, crawledPages, failedPages, batch, results,
                   history, pureVars>>

(***************************************************************************)
(* The callers of crawlSite.  Each awaits the result, tests                *)
(* crawlResult.pages.length === 0 and either reports the failure or calls  *)
(* analyzeSite.  All three pass respectRobotsTxt: true; only the stream    *)
(* handler passes a callback (it sends a progress event).  The server      *)
(* passes concurrency 3, the CLI any concurrency.                          *)
(***************************************************************************)
NoPagesError == "No pages could be crawled. Check the URL and try again."

Failure(caller) == [caller |-> caller, outcome |-> "error", message |-> NoPagesError]
Analyzed(caller) == [caller |-> caller, outcome |-> "analyzeSite", message |-> ""]

\* A mutant of PerformSiteAnalysis without the test for zero pages.
PerformSiteAnalysisUnchecked ==
    /\ pc = "done"
    /\ report = Null
    /\ respectRobotsTxt
    /\ onPageCrawled = "absent"
    /\ report' = Analyzed("performSiteAnalysis")
    /\ UNCHANGED <<crawlVars, pureVars, twin, agg, gen, pageScore, dom, entry, resolver, site>>

\* index.ts lines 154-168: the CLI
AnalyzeSiteWide ==
    /\ pc = "done"
    /\ report = Null
    /\ respectRobotsTxt
    /\ onPageCrawled = "absent"
    /\ report' = IF Len(crawledPages) = 0 THEN Failure("analyzeSiteWide")
                 ELSE Analyzed("analyzeSiteWide")
    /\ UNCHANGED <<crawlVars, pureVars, twin, agg, gen, pageScore, dom, entry, resolver, site>>

\* server.ts lines 333-350: POST /api/analyze in site mode
PerformSiteAnalysis ==
    /\ pc = "done"
    /\ report = Null
    /\ respectRobotsTxt
    /\ onPageCrawled = "absent"
    /\ report' = IF Len(crawledPages) = 0 THEN Failure("performSiteAnalysis")
                 ELSE Analyzed("performSiteAnalysis")
    /\ UNCHANGED <<crawlVars, pureVars, twin, agg, gen, pageScore, dom, entry, resolver, site>>

\* server.ts lines 189-216: GET /api/analyze/stream in site mode
StreamSiteMode ==
    /\ pc = "done"
    /\ report = Null
    /\ respectRobotsTxt
    /\ onPageCrawled = "returns"
    /\ report' = IF Len(crawledPages) = 0 THEN Failure("stream")
                 ELSE Analyzed("stream")
    /\ UNCHANGED <<crawlVars, pureVars, twin, agg, gen, pageScore, dom, entry, resolver, site>>

Next ==
    \/ FetchRobots
    \/ FetchSitemap
    \/ DrawBatch
    \/ \E i \in 1..MaxConcurrency : FetchSucceeds(i)
    \/ \E i \in 1..MaxConcurrency : FetchFails(i)
    \/ ProcessResults
    \/ Sleep
    \/ Return
    \/ AnalyzeSiteWide
    \/ PerformSiteAnalysis
    \/ StreamSiteMode

Spec == Init /\ [][Next]_vars

\* the returned SiteCrawlResult (lines 158-167)
Returned == pc = "done"
totalPages == Cardinality(discoveredUrls)
PageUrls == [i \in 1..Len(crawledPages) |-> crawledPages[i].url]

(***************************************************************************)
(* Properties of the crawl.                                                *)
(***************************************************************************)
Count(s, x) == Cardinality({i \in 1..Len(s) : s[i] = x})

\* no two entries of a sequence of URLs have the same normalized form
DistinctIdentities(urls) ==
    Cardinality({normalizeUrl(urls[i]) : i \in 1..Len(urls)}) = Len(urls)

\* the links of the crawled pages that passed extractInternalUrls
HarvestedLinks ==
    UNION {Range(extractInternalUrls(crawledPages[i].links, baseDomain, disallowedPaths)) :
               i \in 1..Len(crawledPages)}

\* C1 -- Budget invariant: in every state of the crawl and in the returned
\* result, the number of crawled pages is at most maxPages and the size of
\* the known-URL set (totalPages) is at most 2 * maxPages, seed and sitemap
\* URLs included.
C1_BudgetInvariant ==
    /\ Len(crawledPages) <= maxPages
    /\ totalPages <= 2 * maxPages

\* the crawl returned with both budgets exhausted, after the sitemap seeded
\* the queue and the ceiling turned a harvested link away
C1_Witness ==
    /\ Returned
    /\ sitemapUrls # <<>>
    /\ Len(crawledPages) = maxPages
    /\ totalPages = 2 * maxPages
    /\ \E u \in HarvestedLinks : normalizeUrl(u) \notin discoveredUrls

\* C2 -- No duplicate crawl: the URLs ever enqueued (drawn already or still
\* pending) have pairwise different normalized forms, so every normalized
\* URL is handed to the page fetcher at most once and occurs at most once in
\* pages.
C2_NoDuplicateCrawl ==
    /\ DistinctIdentities(dequeued \o urlQueue)
    /\ DistinctIdentities(fetchLog)
    /\ DistinctIdentities(PageUrls)

\* the sitemap listed two spellings of /a, one was crawled, and a crawled
\* page linked back to a known URL
C2_Witness ==
    /\ Returned
    /\ {PageA, PageAVariant} \subseteq Range(sitemapUrls)
    /\ PageAVariant \in Range(PageUrls)
    /\ \E u \in HarvestedLinks : normalizeUrl(u) = normalizeUrl(startUrl)

\* C5 -- Fetch failure handling: a URL whose fetch threw is in failedPages
\* exactly once, was fetched once, is neither on the queue nor in pages; the
\* failing step changes neither the crawled pages nor the queue nor the
\* position of the loop; and a crawl with failures still returns only with
\* an empty queue or a full page budget.
C5_FailedOnce ==
    /\ \A u \in fetchThrew :
          /\ Count(failedPages, u) = 1
          /\ Count(fetchLog, u) = 1
          /\ u \notin Range(urlQueue)
          /\ u \notin Range(PageUrls)
    /\ (Returned /\ fetchThrew # {}) =>
          (urlQueue = <<>> \/ Len(crawledPages) = maxPages)

C5_FetchFailureHandling ==
    /\ []C5_FailedOnce
    /\ [][fetchThrew' # fetchThrew =>
            /\ crawledPages' = crawledPages
            /\ urlQueue' = urlQueue
            /\ discoveredUrls' = discoveredUrls
            /\ pc' = pc]_vars

\* a fetch threw, and the crawl went on to crawl a page drawn after it
C5_Witness ==
    /\ Returned
    /\ \E i \in 1..Len(fetchLog) : \E j \in 1..Len(fetchLog) :
          /\ i < j
          /\ fetchLog[i] \in fetchThrew
          /\ fetchLog[j] \in Range(PageUrls)

\* C8 -- Robots fail-open: when fetchRobotsTxt gave null, the rule list is
\* empty, no URL of the site is disallowed, and no drawn URL is skipped:
\* every drawn URL is handed to the page fetcher.
C8_RobotsFailOpen ==
    (pc # "robots" /\ robotsTxt = Null) =>
        /\ disallowedPaths = <<>>
        /\ \A u \in CrawlUrls : ~isUrlDisallowed(u, disallowedPaths)
        /\ skipped = <<>>
        /\ fetchLog = dequeued

\* without a robots.txt a crawl that respects robots.txt crawled /p
C8_Witness ==
    /\ Returned
    /\ respectRobotsTxt
    /\ robotsTxt = Null
    /\ PagePrivate \in Range(PageUrls)

\* C10 -- Bounded in-flight fetches and batch sequencing: the fetches in
\* flight are fetches of the current batch, at most concurrency and at most
\* maxPages minus the pages crawled so far; while any is in flight every
\* earlier batch has been processed and the current one has not.
C10_BoundedInFlight ==
    /\ Cardinality(inFlight) <= concurrency
    /\ Cardinality(inFlight) <= maxPages - Len(crawledPages)
    /\ inFlight \subseteq Range(batch)
    /\ inFlight # {} => (pc = "batch" /\ harvestNo = batchNo - 1)
    /\ pc # "batch" => harvestNo = batchNo

\* the second batch is in flight, cut below concurrency by the page budget
C10_Witness ==
    /\ batchNo = 2
    /\ concurrency = 2
    /\ Len(crawledPages) = 1
    /\ Cardinality(inFlight) = maxPages - 1
    /\ inFlight # {}

FairSpec == Spec /\ WF_vars(Next)

\* C4 -- Crawl termination: when every step that can be taken eventually is
\* (every fetch settles, the controller runs on), crawlSite returns; and when
\* it has returned, the queue is empty or the crawled pages number maxPages.
C4_Termination ==
    /\ <>Returned
    /\ [](Returned => (urlQueue = <<>> \/ Len(crawledPages) = maxPages))

\* the crawl returned although every fetch it started failed
C4_Witness ==
    /\ Returned
    /\ Len(fetchLog) >= 2
    /\ Range(fetchLog) = fetchThrew
    /\ crawledPages = <<>>
    /\ urlQueue = <<>>

(***************************************************************************)
(* What the rule set says, rule by rule.                                   *)
(***************************************************************************)
\* a rule matches a path by prefix, by its wildcard translation, or by being
\* the bare "/"
RuleMatches(rule, path) ==
    \/ rule = <<"/">>
    \/ StartsWith(path, rule)
    \/ /\ "*" \in Range(rule)
       /\ RegexCompiles(rule)
       /\ RegexTest(rule, path)

RuleSetDisallows(url, rules) ==
    /\ url.valid
    /\ \E k \in 1..Len(rules) : RuleMatches(rules[k], ParseUrl(url).path)

\* C3 -- Robots exclusion before fetch: with respectRobotsTxt enabled, no
\* URL that a rule of the parsed rule set matches is handed to the page
\* fetcher, whatever its source, and such a URL is in neither pages nor
\* failedPages.
C3_ExclusionBeforeFetch ==
    respectRobotsTxt =>
        \A u \in CrawlUrls :
            RuleSetDisallows(u, disallowedPaths) =>
                /\ u \notin Range(fetchLog)
                /\ u \notin Range(PageUrls)
                /\ u \notin Range(failedPages)

\* the links recorded for the crawled page with the identity of url
LinksOf(url) ==
    UNION {Range(crawledPages[i].links) :
               i \in {j \in 1..Len(crawledPages) :
                          normalizeUrl(crawledPages[j].url) = normalizeUrl(url)}}

Allowed(url) == ~RuleSetDisallows(url, disallowedPaths)

RECURSIVE ReachFrom(_)
ReachFrom(S) ==
    LET targets == {l.href : l \in {l \in UNION {LinksOf(u) : u \in S} :
                                       /\ l.isInternal
                                       /\ l.href.valid
                                       /\ isSameDomain(ParseUrl(l.href).host, baseDomain)
                                       /\ Allowed(l.href)}}
    IN  IF targets \subseteq S THEN S ELSE ReachFrom(S \cup targets)

\* the allowed URLs reachable from the seed and the sitemap by internal links
AllowedReachable ==
    ReachFrom({u \in {startUrl} \cup Range(sitemapUrls) : Allowed(u)})

Identities(S) == {normalizeUrl(u) : u \in S}

\* C6 -- End-to-end completeness and silent exclusion: when the crawl has
\* returned, no fetch failed and maxPages is at least the number of allowed
\* reachable pages, pages holds exactly the allowed reachable URLs; and a
\* disallowed link of a crawled page that neither the seed nor the sitemap
\* named was never enqueued, fetched, or listed in pages or failedPages.
C6_CompleteAndSilent ==
    /\ ( /\ Returned
         /\ failedPages = <<>>
         /\ onPageCrawled # "throws"
         /\ maxPages >= Cardinality(Identities(AllowedReachable)) )
       => Identities(Range(PageUrls)) = Identities(AllowedReachable)
    /\ \A i \in 1..Len(crawledPages) : \A l \in Range(crawledPages[i].links) :
          (/\ RuleSetDisallows(l.href, disallowedPaths)
           /\ l.href \notin {startUrl} \cup Range(sitemapUrls))
          => /\ l.href \notin Range(dequeued \o urlQueue)
             /\ l.href \notin Range(fetchLog)
             /\ l.href \notin Range(PageUrls)
             /\ l.href \notin Range(failedPages)

(***************************************************************************)
(* The exclusion filter on its own: parse a robots.txt, then classify a    *)
(* URL.                                                                    *)
(***************************************************************************)
\* the crawl's variables at rest, for the specifications of the helpers
CrawlIdle ==
    /\ maxPages = 1
    /\ concurrency = 1
    /\ respectRobotsTxt = TRUE
    /\ onPageCrawled = "absent"
    /\ startUrl = Root
    /\ robotsTxt = Null
    /\ disallowedPaths = <<>>
    /\ sitemapUrls = <<>>
    /\ urlQueue = <<>>
    /\ discoveredUrls = {}
    /\ crawledPages = <<>>
    /\ failedPages = <<>>
    /\ batch = <<>>
    /\ results = <<>>
    /\ dequeued = <<>>
    /\ skipped = <<>>
    /\ fetchLog = <<>>
    /\ fetchThrew = {}
    /\ inFlight = {}
    /\ callbackLog = <<>>
    /\ batchNo = 0
    /\ harvestNo = 0
    /\ sleeps = 0
    /\ pauses = <<>>
    /\ delayMs = NotGiven

FilterRules == { <<"/">>, <<"/", "p">>, <<"/", "a", "*">>, <<"/", "*", "(">> }

FilterLines ==
    {AgentLine("User-agent", "*"), AgentLine("User-agent", "curl"), RuleLine("Disallow", <<>>)}
    \cup {RuleLine("Disallow", r) : r \in FilterRules}

FilterResponses ==
    {[kind |-> "throws"], [kind |-> "response", ok |-> FALSE]}
    \cup {[kind |-> "response", ok |-> TRUE, text |-> Text(l)] :
              l \in SeqsUpTo(FilterLines, MaxRobotsLines)}

FilterUrls == {Root, PageA, PageB, PagePrivate, PageAVariant}

InitFilter ==
    /\ CrawlIdle
    /\ pc = "filter_parse"
    /\ robotsIn \in FilterResponses
    /\ urlIn \in FilterUrls
    /\ rulesOut = <<>>
    /\ verdict = FALSE
    /\ u1 = Root /\ u2 = Root /\ n1 = Null /\ n2 = Null
    /\ OuterIdle

\* lines 64-65
FilterParse ==
    /\ pc = "filter_parse"
    /\ rulesOut' = parseRobotsTxtDisallow(fetchRobotsTxt(robotsIn))
    /\ pc' = "filter_check"
    /\ UNCHANGED <<outerVars, options, robotsTxt, disallowedPaths, sitemapUrls, urlQueue,
                   discoveredUrls, crawledPages, failedPages, batch, results,
                   history, normVars, robotsIn, urlIn, verdict>>

\* line 104
FilterCheck ==
    /\ pc = "filter_check"
    /\ verdict' = isUrlDisallowed(urlIn, rulesOut)
    /\ pc' = "filter_done"
    /\ UNCHANGED <<outerVars, options, robotsTxt, disallowedPaths, sitemapUrls, urlQueue,
                   discoveredUrls, crawledPages, failedPages, batch, results,
                   history, normVars, robotsIn, urlIn, rulesOut>>

NextFilter == FilterParse \/ FilterCheck

FilterSpec == InitFilter /\ [][NextFilter]_vars

\* C7 -- Exclusion rule semantics: isUrlDisallowed answers true exactly when
\* some rule of the list matches the path by prefix or by its wildcard
\* translation or is the bare "/", wherever the rule stands in the list and
\* whatever rules precede it.
C7_RuleSemantics ==
    pc = "filter_done" => (verdict <=> RuleSetDisallows(urlIn, rulesOut))

(***************************************************************************)
(* normalizeUrl on its own: seed the frontier with one URL, offer another. *)
(***************************************************************************)
NormHosts == {ExampleHost, <<"Example", "com">>}
NormPaths == { <<>>, <<"/">>, <<"/", "a">>, <<"/", "a", "/">>, <<"/", "A">> }
NormQueries ==
    { <<>>,
      << <<"utm_source", "x">> >>,
      << <<"UTM_SOURCE", "x">> >>,
      << <<"id", "1">> >>,
      << <<"id", "2">> >>,
      << <<"ID", "1">> >>,
      << <<"utm_source", "x">>, <<"id", "1">> >> }
NormHashes == {"", "top"}

NormUrls ==
    {Url(h, p, q, f) : h \in NormHosts, p \in NormPaths, q \in NormQueries, f \in NormHashes}

InitNorm ==
    /\ CrawlIdle
    /\ pc = "norm_seed"
    /\ u1 \in NormUrls
    /\ u2 \in NormUrls
    /\ n1 = Null
    /\ n2 = Null
    /\ robotsIn = Null /\ urlIn = Root /\ rulesOut = <<>> /\ verdict = FALSE
    /\ OuterIdle

\* lines 79-80 with u1 as the seed
NormSeed ==
    /\ pc = "norm_seed"
    /\ n1' = normalizeUrl(u1)
    /\ urlQueue' = <<u1>>
    /\ discoveredUrls' = {normalizeUrl(u1)}
    /\ pc' = "norm_offer"
    /\ UNCHANGED <<outerVars, options, robotsTxt, disallowedPaths, sitemapUrls, crawledPages,
                   failedPages, batch, results, history, u1, u2, n2, filterVars>>

\* lines 136-140 with u2 as the new URL
NormOffer ==
    /\ pc = "norm_offer"
    /\ n2' = normalizeUrl(u2)
    /\ LET frontier == Offer([known |-> discoveredUrls, queue |-> urlQueue], u2,
                             maxPages * 2)
       IN  /\ urlQueue' = frontier.queue
           /\ discoveredUrls' = frontier.known
    /\ pc' = "norm_done"
    /\ UNCHANGED <<outerVars, options, robotsTxt, disallowedPaths, sitemapUrls, crawledPages,
                   failedPages, batch, results, history, u1, u2, n1, filterVars>>

NextNorm == NormSeed \/ NormOffer

NormSpec == InitNorm /\ [][NextNorm]_vars

\* the query without the pairs whose key is one of the six tracking names
RECURSIVE WithoutTracking(_)
WithoutTracking(query) ==
    IF query = <<>> THEN <<>>
    ELSE IF Head(query)[1] \in TrackingParams THEN WithoutTracking(Tail(query))
    ELSE <<Head(query)>> \o WithoutTracking(Tail(query))

LowerAll(url) ==
    [url EXCEPT !.host = LowerSeq(url.host), !.path = LowerSeq(url.path),
                !.query = LowerParams(url.query), !.hash = ToLowerCase(url.hash)]

DifferOnlyInTracking(a, b) ==
    [a EXCEPT !.query = WithoutTracking(a.query)] = [b EXCEPT !.query = WithoutTracking(b.query)]

DifferOnlyInSlash(a, b) ==
    [a EXCEPT !.path = StripTrailingSlash(a.path)] = [b EXCEPT !.path = StripTrailingSlash(b.path)]

DifferOnlyInFragment(a, b) == [a EXCEPT !.hash = ""] = [b EXCEPT !.hash = ""]

DifferOnlyInCase(a, b) == LowerAll(a) = LowerAll(b)

DifferInSignificantParam(a, b) ==
    LowerParams(WithoutTracking(a.query)) # LowerParams(WithoutTracking(b.query))

\* C9 -- Normalization identity: two URLs that differ only in tracking
\* parameters, in a trailing slash, in the fragment or in letter case have
\* the same normalized form, and the second one offered to the frontier is
\* rejected; URLs that differ in a non-tracking parameter have different
\* normalized forms.
C9_NormalizationIdentity ==
    pc = "norm_done" =>
        /\ ( \/ DifferOnlyInTracking(u1, u2)
             \/ DifferOnlyInSlash(u1, u2)
             \/ DifferOnlyInFragment(u1, u2)
             \/ DifferOnlyInCase(u1, u2) )
           => (n1 = n2 /\ urlQueue = <<u1>>)
        /\ DifferInSignificantParam(u1, u2) => n1 # n2

(***************************************************************************)
(* The progress callback.                                                  *)
(***************************************************************************)
\* the calls of onPageCrawled made for url
CallsFor(url) == {k \in 1..Len(callbackLog) : callbackLog[k][1] = url}

\* C11 -- Progress callback: when the crawl has returned and a callback was
\* configured, onPageCrawled was called exactly once for every page of pages
\* and for no other URL, and the call for the page at position i of pages
\* carried the index i and the configured maxPages.
C11_ProgressCallback ==
    (Returned /\ onPageCrawled # "absent") =>
        /\ \A i \in 1..Len(crawledPages) : Cardinality(CallsFor(PageUrls[i])) = 1
        /\ \A k \in 1..Len(callbackLog) :
              \E i \in 1..Len(crawledPages) : callbackLog[k] = <<PageUrls[i], i, maxPages>>

(***************************************************************************)
(* Two runs of crawlSite, one after the other, on the same site: the same  *)
(* options, robots.txt, sitemap and outcome of fetching each URL, and a    *)
(* callback of their own.  twin holds the fixed inputs, the callback of    *)
(* the second run and the result of the first.                             *)
(***************************************************************************)
SitePage(links) == [kind |-> "page", links |-> links]
SiteThrows == [kind |-> "throws", links |-> <<>>]

\* what crawlPage does for each URL of the site
TwinSites ==
    { [u \in CrawlUrls |->
          SitePage(<<Link(PageAVariant, TRUE), Link(Root, TRUE), Link(Foreign, FALSE),
                     Link(PageB, TRUE), Link(Foreign, TRUE), Link(PageC, TRUE)>>)],
      [u \in CrawlUrls |->
          IF u = PageB THEN SiteThrows
          ELSE SitePage(<<Link(PagePrivate, TRUE), Link(PageB, TRUE)>>)],
      [u \in CrawlUrls |-> SiteThrows] }

\* the returned SiteCrawlResult (lines 158-167), as far as the runs are compared
Result == [pages |-> crawledPages, failedPages |-> failedPages, totalPages |-> totalPages]

InitTwin ==
    /\ maxPages \in 1..MaxPagesBound
    /\ concurrency \in 1..MaxConcurrency
    /\ respectRobotsTxt = TRUE
    /\ onPageCrawled \in OnPageCrawledModes
    /\ startUrl = Root
    /\ robotsTxt = Null
    /\ disallowedPaths = <<>>
    /\ sitemapUrls = <<>>
    /\ urlQueue = <<>>
    /\ discoveredUrls = {}
    /\ crawledPages = <<>>
    /\ failedPages = <<>>
    /\ batch = <<>>
    /\ results = <<>>
    /\ pc = "robots"
    /\ dequeued = <<>>
    /\ skipped = <<>>
    /\ fetchLog = <<>>
    /\ fetchThrew = {}
    /\ inFlight = {}
    /\ callbackLog = <<>>
    /\ batchNo = 0
    /\ harvestNo = 0
    /\ sleeps = 0
    /\ pauses = <<>>
    /\ delayMs = NotGiven
    /\ PureIdle
    /\ report = Null
    /\ agg = Null
    /\ gen = Null
    /\ pageScore = Null
    /\ dom = Null
    /\ entry = Null
    /\ resolver = Null
    /\ site = ExampleSite
    /\ twin \in [phase : {1}, site : TwinSites, robots : RobotsResponses,
                 sitemap : SitemapContents, second : OnPageCrawledModes, first : {Null}]

\* lines 62-65, with the site's robots.txt
TwinFetchRobots ==
    /\ FetchRobots
    /\ robotsTxt' = fetchRobotsTxt(twin.robots)

\* lines 73-91, with the site's sitemap
TwinFetchSitemap ==
    /\ FetchSitemap
    /\ sitemapUrls' = fetchSitemapUrls(twin.sitemap, baseDomain, maxPages)

\* lines 110-118, with the site's page for the URL
TwinFetchSucceeds(i) ==
    /\ FetchSucceeds(i)
    /\ twin.site[batch[i]].kind = "page"
    /\ onPageCrawled # "throws" =>
          results'[i] = CrawlResult(batch[i], twin.site[batch[i]].links)

\* lines 119-123, for a URL whose fetch fails on this site
TwinFetchFails(i) ==
    /\ FetchFails(i)
    /\ twin.site[batch[i]].kind = "throws"

\* the first run has returned: keep its result and call crawlSite again with
\* the second callback
TwinRestart ==
    /\ pc = "done"
    /\ twin.phase = 1
    /\ twin' = [twin EXCEPT !.phase = 2, !.first = Result]
    /\ onPageCrawled' = twin.second
    /\ robotsTxt' = Null
    /\ disallowedPaths' = <<>>
    /\ sitemapUrls' = <<>>
    /\ urlQueue' = <<>>
    /\ discoveredUrls' = {}
    /\ crawledPages' = <<>>
    /\ failedPages' = <<>>
    /\ batch' = <<>>
    /\ results' = <<>>
    /\ pc' = "robots"
    /\ dequeued' = <<>>
    /\ skipped' = <<>>
    /\ fetchLog' = <<>>
    /\ fetchThrew' = {}
    /\ inFlight' = {}
    /\ callbackLog' = <<>>
    /\ batchNo' = 0
    /\ harvestNo' = 0
    /\ sleeps' = 0
    /\ pauses' = <<>>
    /\ UNCHANGED <<maxPages, concurrency, respectRobotsTxt, startUrl, delayMs, pureVars, report, agg, gen, pageScore, dom, entry, resolver, site>>

NextTwin ==
    \/ TwinFetchRobots
    \/ TwinFetchSitemap
    \/ DrawBatch
    \/ \E i \in 1..MaxConcurrency : TwinFetchSucceeds(i)
    \/ \E i \in 1..MaxConcurrency : TwinFetchFails(i)
    \/ ProcessResults
    \/ Sleep
    \/ Return
    \/ TwinRestart

TwinSpec == InitTwin /\ [][NextTwin]_vars

\* C12 -- Progress callback is not a control input: when the second of two
\* runs that differ only in the onPageCrawled callback has returned, its
\* pages, its failedPages (as a collection) and its totalPages are those of
\* the first run.
C12_CallbackNotControl ==
    (Returned /\ twin.phase = 2) =>
        /\ crawledPages = twin.first.pages
        /\ Range(failedPages) = Range(twin.first.failedPages)
        /\ Len(failedPages) = Len(twin.first.failedPages)
        /\ totalPages = twin.first.totalPages

(***************************************************************************)
(* Zero pages.                                                             *)
(***************************************************************************)
\* C13 -- Zero pages crawled: a crawl in which no fetch produced a page
\* returns with crawledPages = 0; and a caller that has acted did so after
\* crawlSite returned, reported the "no pages could be crawled" failure when
\* pages is empty, and called analyzeSite only on a non-empty pages list.
C13_ZeroPagesReported ==
    /\ (Returned /\ Range(fetchLog) = fetchThrew) => Len(crawledPages) = 0
    /\ report # Null =>
          /\ Returned
          /\ Len(crawledPages) = 0 => report = Failure(report.caller)
          /\ report.outcome = "analyzeSite" => Len(crawledPages) > 0

\* every fetch of the crawl failed and the POST handler reported the failure
C13_Witness ==
    /\ report = Failure("performSiteAnalysis")
    /\ fetchLog # <<>>
    /\ Range(fetchLog) = fetchThrew
    /\ crawledPages = <<>>

(***************************************************************************)
(* The site-wide aggregator (types.ts).  analyzeSite runs the analyzers    *)
(* on every crawled page, groups their issues by category:checkName:status,*)
(* turns the groups into SiteWideIssues and computes the scores.  An       *)
(* SEOIssue is modelled by its category, checkName, status and priority; a *)
(* page by the list of issues the analyzers return for it, and its URL by  *)
(* its position in crawlResult.pages.                                      *)
(***************************************************************************)
MaxBatch == 3

Issue(category, checkName, status, priority) ==
    [category |-> category, checkName |-> checkName, status |-> status,
     priority |-> priority]

\* issues the analyzers emit, with the priorities they give them
TitleFail == Issue("basic", "Title Tag", "fail", "high")
TitlePass == Issue("basic", "Title Tag", "pass", "low")
NoIndex == Issue("basic", "Robots Meta Tag", "warning", "high")
HeadingH2 == Issue("basic", "Heading Hierarchy", "warning", "medium")
HeadingH3 == Issue("basic", "Heading Hierarchy", "warning", "low")
HttpsFail == Issue("intermediate", "HTTPS", "fail", "high")
HttpsPass == Issue("intermediate", "HTTPS", "pass", "low")
AmpInfo == Issue("advanced", "AMP Version", "info", "low")

\* what the analyzers return for a page: each check reports one outcome
PageIssueLists ==
    { <<TitlePass, HttpsPass>>,
      <<TitleFail, HttpsPass>>,
      <<TitlePass, HeadingH3, HttpsFail>>,
      <<TitleFail, HeadingH2, HttpsFail>>,
      <<TitlePass, NoIndex, AmpInfo>> }

\* crawlResult.pages of a crawl that did not come back empty
Batches == SeqsUpTo(PageIssueLists, MaxBatch) \ {<<>>}

\* Math.round of the non-negative quotient num / den, in exact arithmetic
Round(num, den) == (2 * num + den) \div (2 * den)

\* Math.round of a double that was computed from inexact terms: where the
\* exact quotient lies halfway between two integers the double may fall just
\* below the half, and Math.round then gives the lower one
RoundChoices(num, den) ==
    IF (2 * num) % (2 * den) = den THEN {Round(num, den) - 1, Round(num, den)}
    ELSE {Round(num, den)}

\* the pairs (pages.length, totalPages) up to 500 pages for which the double
\* (pages.length / totalPages) * 100 falls just below the half
HalfLost ==
    { <<23, 40>>, <<46, 80>>, <<69, 120>>, <<92, 160>>, <<29, 200>>, <<57, 200>>,
      <<113, 200>>, <<115, 200>>, <<138, 240>>, <<161, 280>>, <<184, 320>>,
      <<207, 360>>, <<58, 400>>, <<114, 400>>, <<226, 400>>, <<230, 400>>,
      <<253, 440>>, <<276, 480>> }

\* A mutant of Percentage that scales the share by 1000.
PercentagePerMille(affected, total) == Round(1000 * affected, total)

\* line 571
Percentage(affected, total) ==
    IF <<affected, total>> \in HalfLost THEN Round(100 * affected, total) - 1
    ELSE Round(100 * affected, total)

\* line 509: the grouping key
Key(issue) == <<issue.category, issue.checkName, issue.status>>

\* Map.prototype.has on the insertion-ordered list of entries
MapHas(map, key) == \E k \in 1..Len(map) : map[k].key = key

\* lines 509-521 with the push of line 518 done for a new entry only
PushIssueOnce(map, issue, url) ==
    IF MapHas(map, Key(issue)) THEN map
    ELSE Append(map, [key |-> Key(issue), issue |-> issue, pages |-> <<url>>])

\* lines 509-521: one issue of the page `url`
PushIssue(map, issue, url) ==
    LET key == Key(issue)
        m1 == IF MapHas(map, key) THEN map
              ELSE Append(map, [key |-> key, issue |-> issue, pages |-> <<>>])
        k == CHOOSE j \in 1..Len(m1) : m1[j].key = key
    IN  [m1 EXCEPT ![k].pages = Append(@, url)]

\* lines 508-523: the inner loop over the page's issues
RECURSIVE GroupIssues(_, _, _)
GroupIssues(map, issues, url) ==
    IF issues = <<>> THEN map
    ELSE Let(PushIssue(map, Head(issues), url),
             LAMBDA m : GroupIssues(m, Tail(issues), url))

\* the weights table of line 645, in tenths
weights(status) ==
    CASE status = "pass" -> 10
      [] status = "info" -> 9
      [] status = "warning" -> 5
      [] status = "fail" -> 0

\* line 646: weights[issue.status] || 0.5, in tenths; 0 is falsy
WeightOrDefault(status) == IF weights(status) = 0 THEN 5 ELSE weights(status)

\* line 646: the reduce over the issues, in tenths
RECURSIVE SumWeights(_)
SumWeights(issues) ==
    IF issues = <<>> THEN 0
    ELSE WeightOrDefault(Head(issues).status) + SumWeights(Tail(issues))

\* lines 642-649
calculatePageScore(issues) ==
    IF Len(issues) = 0 THEN 100
    ELSE Round(10 * SumWeights(issues), Len(issues))

\* Array.prototype.filter(i => i.status === status).length
CountStatus(issues, status) ==
    Cardinality({k \in 1..Len(issues) : issues[k].status = status})

\* lines 498-504
PageAnalysisOf(url, pageIssues) ==
    [url |-> url, score |-> calculatePageScore(pageIssues), issues |-> pageIssues,
     criticalCount |-> CountStatus(pageIssues, "fail"),
     warningCount |-> CountStatus(pageIssues, "warning")]

\* lines 579-584 without the adjustment: the base priority is kept
AdjustPriorityNever(issue, percentage) == issue.priority

\* lines 579-584: the priority adjusted for prevalence
AdjustPriority(issue, percentage) ==
    IF percentage >= 80 /\ issue.status = "fail" THEN "high"
    ELSE IF percentage >= 50 /\ issue.status = "warning" THEN "medium"
    ELSE issue.priority

\* lines 569-599: the loop body for one entry of the map; the SiteWideIssue it
\* pushes, or nothing
SiteWideIssueOf(data, total) ==
    LET issue == data.issue
        pages == data.pages
        percentage == Percentage(Len(pages), total)
    IN  IF issue.status # "pass" \/ Len(pages) < total
        THEN << [category |-> issue.category,
                 checkName |-> issue.checkName,
                 issueType |-> IF percentage >= 50 THEN "site-wide" ELSE "page-specific",
                 affectedPages |-> Len(pages),
                 totalPages |-> total,
                 percentage |-> percentage,
                 priority |-> AdjustPriority(issue, percentage),
                 examples |-> Slice(pages, 5)] >>
        ELSE <<>>

\* lines 569-600: the loop over the map, in insertion order
RECURSIVE Emitted(_, _)
Emitted(issuesByCheck, total) ==
    IF issuesByCheck = <<>> THEN <<>>
    ELSE SiteWideIssueOf(Head(issuesByCheck), total) \o Emitted(Tail(issuesByCheck), total)

\* line 604
priorityOrder(priority) ==
    CASE priority = "high" -> 0
      [] priority = "medium" -> 1
      [] priority = "low" -> 2

\* a comparator that looks at the priority only
CompareByPriorityOnly(a, b) == priorityOrder(a.priority) - priorityOrder(b.priority)

\* lines 603-611: the comparator
Compare(a, b) ==
    IF priorityOrder(a.priority) # priorityOrder(b.priority)
    THEN priorityOrder(a.priority) - priorityOrder(b.priority)
    ELSE b.percentage - a.percentage

\* Array.prototype.sort is stable: an element goes behind every element that
\* does not compare greater than it
RECURSIVE Insert(_, _)
Insert(sorted, x) ==
    IF sorted = <<>> THEN <<x>>
    ELSE IF Compare(Head(sorted), x) <= 0
         THEN <<Head(sorted)>> \o Insert(Tail(sorted), x)
         ELSE <<x>> \o sorted

RECURSIVE SortFrom(_, _)
SortFrom(sorted, rest) ==
    IF rest = <<>> THEN sorted
    ELSE Let(Insert(sorted, Head(rest)), LAMBDA t : SortFrom(t, Tail(rest)))

\* line 603: Array.prototype.sort with the comparator
Sort(list) == SortFrom(<<>>, list)

\* lines 563-612
generateSiteWideIssues(issuesByCheck, total) == Sort(Emitted(issuesByCheck, total))

\* Array.prototype.filter(i => i.category === category)
RECURSIVE FilterCategory(_, _)
FilterCategory(issues, category) ==
    IF issues = <<>> THEN <<>>
    ELSE (IF Head(issues).category = category THEN <<Head(issues)>> ELSE <<>>)
         \o FilterCategory(Tail(issues), category)

\* lines 669-672: an issue's pass share, in hundredths
PassPercentage(i) == IF i.percentage = 100 THEN 100 ELSE 100 - i.percentage

\* line 674: the reduce over the pass shares, in hundredths
RECURSIVE SumPass(_)
SumPass(issues) ==
    IF issues = <<>> THEN 0 ELSE PassPercentage(Head(issues)) + SumPass(Tail(issues))

\* lines 666-675: the values the double arithmetic can give
calculateCategoryScore(issues) ==
    IF Len(issues) = 0 THEN {100}
    ELSE RoundChoices(SumPass(issues), Len(issues))

RECURSIVE SumScores(_)
SumScores(pageAnalyses) ==
    IF pageAnalyses = <<>> THEN 0 ELSE Head(pageAnalyses).score + SumScores(Tail(pageAnalyses))

\* line 681: basic * 0.4 + intermediate * 0.35 + advanced * 0.25, rounded
Overall(basic, intermediate, advanced) ==
    RoundChoices(8 * basic + 7 * intermediate + 5 * advanced, 20)

\* lines 654-693: the score records the double arithmetic can give
calculateSiteScores(pageAnalyses, siteWideIssues) ==
    LET pageScores == {pageAnalyses[k].score : k \in 1..Len(pageAnalyses)}
        basics == calculateCategoryScore(FilterCategory(siteWideIssues, "basic"))
        intermediates ==
            calculateCategoryScore(FilterCategory(siteWideIssues, "intermediate"))
        advanceds == calculateCategoryScore(FilterCategory(siteWideIssues, "advanced"))
    IN  UNION {
          { [overall |-> overall, basic |-> q[1], intermediate |-> q[2], advanced |-> q[3],
             averagePageScore |-> Round(SumScores(pageAnalyses), Len(pageAnalyses)),
             lowestPageScore |-> CHOOSE x \in pageScores : \A y \in pageScores : x <= y,
             highestPageScore |-> CHOOSE x \in pageScores : \A y \in pageScores : x >= y] :
            overall \in Overall(q[1], q[2], q[3]) } :
          q \in basics \X intermediates \X advanceds }

(***************************************************************************)
(* analyzeSite as a process: one step per page of the loop of lines        *)
(* 483-524, then generateSiteWideIssues, then calculateSiteScores.         *)
(***************************************************************************)
InitAgg ==
    /\ CrawlIdle
    /\ pc = "analyzeSite"
    /\ PureIdle
    /\ report = Null
    /\ twin = Null
    /\ gen = Null
    /\ pageScore = Null
    /\ dom = Null
    /\ entry = Null
    /\ resolver = Null
    /\ site = ExampleSite
    /\ agg \in [pages : Batches, step : {"pages"}, done : {0}, pageAnalyses : {<<>>},
                allIssuesByCheck : {<<>>}, siteWideIssues : {<<>>}, scores : {Null}]

\* lines 483-524: one iteration of the loop over the pages
AnalyzePage ==
    /\ agg # Null
    /\ agg.step = "pages"
    /\ agg.done < Len(agg.pages)
    /\ \E url \in {agg.done + 1} :
       \E pageIssues \in {agg.pages[url]} :
          agg' = [agg EXCEPT
                    !.done = url,
                    !.pageAnalyses = Append(@, PageAnalysisOf(url, pageIssues)),
                    !.allIssuesByCheck = GroupIssues(@, pageIssues, url)]
    /\ UNCHANGED <<crawlVars, pureVars, report, twin, gen, pageScore, dom, entry, resolver, site>>

\* line 527
GenerateSiteWide ==
    /\ agg # Null
    /\ agg.step = "pages"
    /\ agg.done = Len(agg.pages)
    /\ agg' = [agg EXCEPT
                 !.step = "scores",
                 !.siteWideIssues =
                     generateSiteWideIssues(agg.allIssuesByCheck, Len(agg.pages))]
    /\ UNCHANGED <<crawlVars, pureVars, report, twin, gen, pageScore, dom, entry, resolver, site>>

\* line 530
CalculateScores ==
    /\ agg # Null
    /\ agg.step = "scores"
    /\ \E scores \in calculateSiteScores(agg.pageAnalyses, agg.siteWideIssues) :
          agg' = [agg EXCEPT !.step = "done", !.scores = scores]
    /\ UNCHANGED <<crawlVars, pureVars, report, twin, gen, pageScore, dom, entry, resolver, site>>

NextAgg == AnalyzePage \/ GenerateSiteWide \/ CalculateScores

AggSpec == InitAgg /\ [][NextAgg]_vars

\* analyzeSite has produced its siteWideIssues
Aggregated == agg # Null /\ agg.step \in {"scores", "done"}

(***************************************************************************)
(* Counts and percentages of the groups.                                   *)
(***************************************************************************)
\* the keys reported in the batch
KeysOf(pages) == UNION {{Key(pages[p][k]) : k \in 1..Len(pages[p])} : p \in 1..Len(pages)}

\* the pages whose issue list holds the key
Reporting(pages, key) ==
    {p \in 1..Len(pages) : \E k \in 1..Len(pages[p]) : Key(pages[p][k]) = key}

\* a group with status pass that every page reports
UniversalPass(pages, key) ==
    key[3] = "pass" /\ Cardinality(Reporting(pages, key)) = Len(pages)

\* i is the SiteWideIssue the claim describes for the key
DescribesGroup(i, pages, key) ==
    \E a \in {Cardinality(Reporting(pages, key))} :
    \E n \in {Len(pages)} :
        /\ i.category = key[1]
        /\ i.checkName = key[2]
        /\ Range(i.examples) \subseteq Reporting(pages, key)
        /\ Len(i.examples) = Min(5, a)
        /\ i.affectedPages = a
        /\ i.totalPages = n
        /\ 2 * n * i.percentage <= 200 * a + n
        /\ 200 * a + n < 2 * n * (i.percentage + 1)
        /\ i.issueType = (IF i.percentage >= 50 THEN "site-wide" ELSE "page-specific")

MaxTotalPages == 101

LoadInfo == Issue("advanced", "Page Load Time", "info", "medium")

\* the group's underlying issue: every status, with the priorities the
\* analyzers give it
GenIssues == {TitleFail, NoIndex, HeadingH2, HeadingH3, AmpInfo, LoadInfo, TitlePass}

\* the map entry of a group reported by the pages 1..affected
Group(issue, affected) ==
    [key |-> Key(issue), issue |-> issue, pages |-> [p \in 1..affected |-> p]]

InitGen ==
    /\ CrawlIdle
    /\ pc = "generateSiteWideIssues"
    /\ PureIdle
    /\ report = Null
    /\ twin = Null
    /\ agg = Null
    /\ pageScore = Null
    /\ dom = Null
    /\ entry = Null
    /\ resolver = Null
    /\ site = ExampleSite
    /\ \E total \in 1..MaxTotalPages, issue \in GenIssues :
       \E affected \in 1..total :
          gen = [step |-> "call", issuesByCheck |-> <<Group(issue, affected)>>,
                 totalPages |-> total, siteWideIssues |-> <<>>]

\* lines 563-612
Generate ==
    /\ gen # Null
    /\ gen.step = "call"
    /\ gen' = [gen EXCEPT
                 !.step = "done",
                 !.siteWideIssues = generateSiteWideIssues(gen.issuesByCheck, gen.totalPages)]
    /\ UNCHANGED <<crawlVars, pureVars, report, twin, agg, pageScore, dom, entry, resolver, site>>

NextGen == Generate

GenSpec == InitGen /\ [][NextGen]_vars

\* generateSiteWideIssues has returned
Generated == gen # Null /\ gen.step = "done"

\* C15: every SiteWideIssue is classified site-wide if and only if twice its
\* affectedPages is at least its totalPages, and page-specific if and only if
\* twice its affectedPages is less than its totalPages.
C15_SiteWideMeansHalf ==
    Generated =>
        \A k \in 1..Len(gen.siteWideIssues) :
            \E i \in {gen.siteWideIssues[k]} :
                /\ i.issueType = "site-wide" <=> 2 * i.affectedPages >= i.totalPages
                /\ i.issueType = "page-specific" <=> 2 * i.affectedPages < i.totalPages

\* the underlying per-page issue of the one group
BaseIssue == gen.issuesByCheck[1].issue

\* C16: the priority of an emitted SiteWideIssue is high when its status is
\* fail and its percentage is at least 80, is medium when its status is
\* warning, its percentage at least 50 and its base priority low, and equals
\* the priority of the underlying per-page issue whenever neither threshold
\* is met.
C16_PriorityEscalation ==
    Generated =>
        \A k \in 1..Len(gen.siteWideIssues) :
            \E i \in {gen.siteWideIssues[k]} :
                /\ (BaseIssue.status = "fail" /\ i.percentage >= 80) => i.priority = "high"
                /\ (BaseIssue.status = "warning" /\ i.percentage >= 50
                        /\ BaseIssue.priority = "low") => i.priority = "medium"
                /\ (~(BaseIssue.status = "fail" /\ i.percentage >= 80)
                        /\ ~(BaseIssue.status = "warning" /\ i.percentage >= 50))
                      => i.priority = BaseIssue.priority

\* a warning of base priority low on 9 of 10 pages is emitted as medium
C16_Witness ==
    /\ Generated
    /\ BaseIssue = HeadingH3
    /\ gen.totalPages = 10
    /\ Len(gen.siteWideIssues) = 1
    /\ gen.siteWideIssues[1].affectedPages = 9
    /\ gen.siteWideIssues[1].percentage = 90
    /\ gen.siteWideIssues[1].priority = "medium"

\* C17: the priority of every emitted SiteWideIssue is at least as urgent as
\* the base priority of the underlying per-page issue, in the order
\* high > medium > low.
C17_EscalationOnlyRaises ==
    Generated =>
        \A k \in 1..Len(gen.siteWideIssues) :
            priorityOrder(gen.siteWideIssues[k].priority) <= priorityOrder(BaseIssue.priority)

(***************************************************************************)
(* Ranking of the site-wide issues.                                        *)
(***************************************************************************)
\* the group an emitted issue was made from
KeyOf(i, pages) == CHOOSE key \in KeysOf(pages) : DescribesGroup(i, pages, key)

\* where the scan of the pages first meets the key: the page and the position
\* in the page's issue list
FirstSeen(pages, key) ==
    LET p == CHOOSE q \in Reporting(pages, key) : \A r \in Reporting(pages, key) : q <= r
        k == CHOOSE j \in 1..Len(pages[p]) :
                 /\ Key(pages[p][j]) = key
                 /\ \A m \in 1..(j - 1) : Key(pages[p][m]) # key
    IN  <<p, k>>

\* the group of a was first encountered before the group of b
DiscoveredBefore(a, b, pages) ==
    \E x \in {FirstSeen(pages, KeyOf(a, pages))} :
    \E y \in {FirstSeen(pages, KeyOf(b, pages))} :
        x[1] < y[1] \/ (x[1] = y[1] /\ x[2] < y[2])

\* C18: in the returned siteWideIssues, for every pair of positions i < j the
\* priority rank (high 0, medium 1, low 2) at i is at most that at j; with
\* equal ranks the percentage at i is at least that at j; with equal rank and
\* percentage the group at i was first encountered before the group at j.
\* These three conditions order any two groups, so the order of the list is
\* fixed by the input.
C18_DeterministicRanking ==
    Aggregated =>
        \A i, j \in 1..Len(agg.siteWideIssues) :
            i < j =>
                \E a \in {agg.siteWideIssues[i]} :
                \E b \in {agg.siteWideIssues[j]} :
                    /\ priorityOrder(a.priority) <= priorityOrder(b.priority)
                    /\ priorityOrder(a.priority) = priorityOrder(b.priority)
                          => a.percentage >= b.percentage
                    /\ (priorityOrder(a.priority) = priorityOrder(b.priority)
                            /\ a.percentage = b.percentage)
                          => DiscoveredBefore(a, b, agg.pages)

\* a list in which each of the three criteria decides some pair
C18_Witness ==
    /\ Aggregated
    /\ \E i, j \in 1..Len(agg.siteWideIssues) :
          /\ i < j
          /\ agg.siteWideIssues[i].priority # agg.siteWideIssues[j].priority
    /\ \E i, j \in 1..Len(agg.siteWideIssues) :
          /\ i < j
          /\ agg.siteWideIssues[i].priority = agg.siteWideIssues[j].priority
          /\ agg.siteWideIssues[i].percentage > agg.siteWideIssues[j].percentage
          /\ DiscoveredBefore(agg.siteWideIssues[j], agg.siteWideIssues[i], agg.pages)
    /\ \E i, j \in 1..Len(agg.siteWideIssues) :
          /\ i < j
          /\ agg.siteWideIssues[i].priority = agg.siteWideIssues[j].priority
          /\ agg.siteWideIssues[i].percentage = agg.siteWideIssues[j].percentage

(***************************************************************************)
(* calculatePageScore on its own.                                          *)
(***************************************************************************)
MaxIssues == 3

\* one issue of every status
ScoreIssues == {TitleFail, HeadingH3, AmpInfo, TitlePass}

InitScore ==
    /\ CrawlIdle
    /\ pc = "calculatePageScore"
    /\ PureIdle
    /\ report = Null
    /\ twin = Null
    /\ agg = Null
    /\ gen = Null
    /\ dom = Null
    /\ entry = Null
    /\ resolver = Null
    /\ site = ExampleSite
    /\ pageScore \in [step : {"call"}, issues : SeqsUpTo(ScoreIssues, MaxIssues),
                      score : {0}]

\* lines 642-649
CalculatePageScore ==
    /\ pageScore # Null
    /\ pageScore.step = "call"
    /\ pageScore' = [pageScore EXCEPT
                       !.step = "done",
                       !.score = calculatePageScore(pageScore.issues)]
    /\ UNCHANGED <<crawlVars, pureVars, report, twin, agg, gen, dom, entry, resolver, site>>

NextScore == CalculatePageScore

ScoreSpec == InitScore /\ [][NextScore]_vars

\* calculatePageScore has returned
Scored == pageScore # Null /\ pageScore.step = "done"

\* the sum of the weights pass = 1, info = 0.9, warning = 0.5 and fail = 0,
\* in tenths
SpecifiedWeightSum(issues) ==
    10 * CountStatus(issues, "pass") + 9 * CountStatus(issues, "info")
        + 5 * CountStatus(issues, "warning")

\* C19: calculatePageScore returns round(sum of weights / number of issues *
\* 100) with the weights pass = 1, info = 0.9, warning = 0.5 and fail = 0, so
\* a page whose issues all have status fail scores 0; a page with zero issues
\* scores exactly 100.
C19_PageScore ==
    Scored =>
        \E n \in {Len(pageScore.issues)} :
        \E total \in {SpecifiedWeightSum(pageScore.issues)} :
            /\ n = 0 => pageScore.score = 100
            /\ n > 0 =>
                  /\ 2 * n * pageScore.score <= 20 * total + n
                  /\ 20 * total + n < 2 * n * (pageScore.score + 1)
            /\ (n > 0 /\ CountStatus(pageScore.issues, "fail") = n) => pageScore.score = 0

(***************************************************************************)
(* Category scores.                                                        *)
(***************************************************************************)
\* analyzeSite has computed its scores
ScoresDone == agg # Null /\ agg.step = "done"

\* the percentages of the emitted issues of a category
CategoryPercentages(category) ==
    LET issues == FilterCategory(agg.siteWideIssues, category)
    IN  [k \in 1..Len(issues) |-> issues[k].percentage]

RECURSIVE SumSeq(_)
SumSeq(s) == IF s = <<>> THEN 0 ELSE Head(s) + SumSeq(Tail(s))

\* score is round(mean of (1 - percentage / 100) * 100) over the percentages;
\* a mean that lies exactly halfway may be rounded either way
IsMeanPassShare(score, percentages) ==
    \E n \in {Len(percentages)} :
    \E shares \in {SumSeq([k \in 1..n |-> 100 - percentages[k]])} :
        /\ 2 * n * score <= 2 * shares + n
        /\ 2 * shares + n <= 2 * n * (score + 1)

\* the category's score in the result
CategoryScore(category) ==
    CASE category = "basic" -> agg.scores.basic
      [] category = "intermediate" -> agg.scores.intermediate
      [] category = "advanced" -> agg.scores.advanced

\* C20: the score of each category is round(mean over the category's
\* SiteWideIssues of (1 - percentage / 100) * 100), so a category whose only
\* issue affects 100% of the pages scores 0; a category with no
\* SiteWideIssues scores exactly 100.
C20_CategoryScore ==
    ScoresDone =>
        \A category \in {"basic", "intermediate", "advanced"} :
            \E percentages \in {CategoryPercentages(category)} :
                /\ Len(percentages) = 0 => CategoryScore(category) = 100
                /\ Len(percentages) > 0 =>
                      IsMeanPassShare(CategoryScore(category), percentages)
                /\ percentages = <<100>> => CategoryScore(category) = 0

(***************************************************************************)
(* The two same-domain tests: the one parsePageUrlsFromSitemap applies to  *)
(* the <loc> entries of a sitemap and isSameDomain, applied to the links   *)
(* of a page.  Hostnames are sequences of labels.                          *)
(***************************************************************************)
DomainHosts ==
    { <<"example", "com">>, <<"www", "example", "com">>, <<"blog", "example", "com">>,
      <<"www", "blog", "example", "com">>, <<"WWW", "Example", "com">>,
      <<"other", "org">>, <<"www", "other", "org">> }

InitDomain ==
    /\ CrawlIdle
    /\ pc = "sameDomain"
    /\ PureIdle
    /\ report = Null
    /\ twin = Null
    /\ agg = Null
    /\ gen = Null
    /\ pageScore = Null
    /\ entry = Null
    /\ resolver = Null
    /\ site = ExampleSite
    /\ dom \in [step : {"sitemap"}, base : {LowerSeq(h) : h \in DomainHosts},
                hostname : DomainHosts, sitemapKeeps : {FALSE}, linkKeeps : {FALSE}]

\* lines 325-344 on a sitemap whose one <loc> has the hostname
SitemapFilter ==
    /\ dom # Null
    /\ dom.step = "sitemap"
    /\ dom' = [dom EXCEPT
                 !.step = "link",
                 !.sitemapKeeps =
                     parsePageUrlsFromSitemap(<<Url(dom.hostname, <<"/">>, <<>>, "")>>,
                                              dom.base) # <<>>]
    /\ UNCHANGED <<crawlVars, pureVars, report, twin, agg, gen, pageScore, entry, resolver, site>>

\* lines 173-178 on the same two hostnames
LinkFilter ==
    /\ dom # Null
    /\ dom.step = "link"
    /\ dom' = [dom EXCEPT !.step = "done",
                          !.linkKeeps = isSameDomain(dom.hostname, dom.base)]
    /\ UNCHANGED <<crawlVars, pureVars, report, twin, agg, gen, pageScore, entry, resolver, site>>

NextDomain == SitemapFilter \/ LinkFilter

DomainSpec == InitDomain /\ [][NextDomain]_vars

\* removing a leading 'www.' from a lower-cased hostname
WithoutWww(h) == IF Len(h) >= 2 /\ h[1] = "www" THEN Tail(h) ELSE h

\* C21: the sitemap filter keeps a <loc> if and only if its hostname and the
\* base hostname are equal after removing a leading 'www.' from each, or the
\* hostname is a subdomain of the base domain; so it is symmetric in www and
\* gives the answer of isSameDomain.
C21_SitemapSameDomain ==
    (dom # Null /\ dom.step = "done") =>
        \E h \in {LowerSeq(dom.hostname)}, b \in {WithoutWww(dom.base)} :
            /\ dom.sitemapKeeps <=>
                  \/ WithoutWww(h) = b
                  \/ (Len(h) > Len(b) /\ SubSeq(h, Len(h) - Len(b) + 1, Len(h)) = b)
            /\ dom.sitemapKeeps <=> dom.linkKeeps

(***************************************************************************)
(* The entry points and the maxPages they hand to crawlSite.  A raw input  *)
(* is missing, a text without a leading number, or a text that parseInt    *)
(* reads as the integer `value`.                                           *)
(***************************************************************************)
MaxRaw == 502

RawInputs ==
    { [kind |-> "missing", value |-> 0], [kind |-> "text", value |-> 0] }
    \cup { [kind |-> "number", value |-> v] : v \in (-2..2) \cup (498..MaxRaw) }

EntryPoints == {"POST /api/analyze", "GET /api/analyze/stream", "CLI --max-pages"}

Max(a, b) == IF a >= b THEN a ELSE b

\* parseInt(String(raw), 10): NaN unless the text starts with a number
ParseInt(raw) ==
    IF raw.kind = "number" THEN [nan |-> FALSE, value |-> raw.value]
    ELSE [nan |-> TRUE, value |-> 0]

\* x || fallback for a number x: NaN and 0 are falsy
OrElse(x, fallback) == IF x.nan \/ x.value = 0 THEN fallback ELSE x.value

\* server.ts lines 87 and 151
ServerMaxPages(raw) == Min(Max(OrElse(ParseInt(raw), 50), 1), 500)

\* index.ts lines 190 and 209-213: the flag may be absent
ParseArgsMaxPages(raw) ==
    IF raw.kind = "missing" THEN 50
    ELSE LET value == ParseInt(raw)
         IN  IF ~value.nan /\ value.value > 0 THEN value.value ELSE 50

InitEntry ==
    /\ CrawlIdle
    /\ pc = "entry"
    /\ PureIdle
    /\ report = Null
    /\ twin = Null
    /\ agg = Null
    /\ gen = Null
    /\ pageScore = Null
    /\ dom = Null
    /\ resolver = Null
    /\ site = ExampleSite
    /\ entry \in [step : {"request"}, point : EntryPoints, raw : RawInputs,
                  maxPages : {0}, handed : {0}]

\* server.ts lines 85-87 and 149-151, index.ts lines 190-224
ReadMaxPages ==
    /\ entry # Null
    /\ entry.step = "request"
    /\ entry' = [entry EXCEPT
                   !.step = "parsed",
                   !.maxPages = IF entry.point = "CLI --max-pages"
                                THEN ParseArgsMaxPages(entry.raw)
                                ELSE ServerMaxPages(entry.raw)]
    /\ UNCHANGED <<crawlVars, pureVars, report, twin, agg, gen, pageScore, dom, resolver, site>>

\* the call of crawlSite: server.ts lines 189-190 and 337-338, and
\* index.ts lines 135 and 154-155
CallCrawlSite ==
    /\ entry # Null
    /\ entry.step = "parsed"
    /\ entry' = [entry EXCEPT
                   !.step = "crawlSite",
                   !.handed = IF entry.point = "CLI --max-pages"
                              THEN OrElse([nan |-> FALSE, value |-> entry.maxPages], 50)
                              ELSE entry.maxPages]
    /\ UNCHANGED <<crawlVars, pureVars, report, twin, agg, gen, pageScore, dom, resolver, site>>

NextEntry == ReadMaxPages \/ CallCrawlSite

EntrySpec == InitEntry /\ [][NextEntry]_vars

\* C22: whatever the raw maxPages input and the entry point, the maxPages
\* handed to crawlSite is an integer from 1 to 500.
C22_MaxPagesClamp ==
    (entry # Null /\ entry.step = "crawlSite") => entry.handed \in 1..500

(***************************************************************************)
(* fetchSitemapUrls as a process: the fetch of /sitemap.xml, one step per  *)
(* child sitemap of an index, the return, and the seeding of the queue by  *)
(* crawlSite.  resolver.fetched lists the children whose fetch was issued. *)
(***************************************************************************)
MaxChildren == 17

\* a child sitemap that answers with a urlset
ChildOk(k) ==
    [kind |-> "response", ok |-> TRUE,
     locs |-> IF k % 2 = 1 THEN <<PageA, PageB>> ELSE <<PageC>>]

\* the ways the fetch of a child fails: fetch throws, or the status is not ok
ChildFailures == {[kind |-> "throws"], [kind |-> "response", ok |-> FALSE, locs |-> <<>>]}

\* an index of n children of which child `failed` (if any) fails
SitemapIndex(n, failed, failure) ==
    [kind |-> "index",
     children |-> [k \in 1..n |-> IF k = failed THEN failure ELSE ChildOk(k)]]

\* an entry new URL() rejects
NotAUrl == [Root EXCEPT !.valid = FALSE]

ResolverContents ==
    { Null, Urlset(<<>>), Urlset(<<NotAUrl, PageA, Foreign, PageB, PageC>>) }
    \cup { SitemapIndex(n, 0, [kind |-> "throws"]) : n \in 0..MaxChildren }
    \cup { SitemapIndex(n, failed, failure) :
              n \in 1..MaxChildren, failed \in 1..MaxChildren, failure \in ChildFailures }

\* the maxUrls the crawl passes: its maxPages
ResolverBudgets == {1, 2, 3, 2 * MaxChildren}

InitResolver ==
    /\ CrawlIdle
    /\ pc = "fetchSitemapUrls"
    /\ PureIdle
    /\ report = Null
    /\ twin = Null
    /\ agg = Null
    /\ gen = Null
    /\ pageScore = Null
    /\ dom = Null
    /\ entry = Null
    /\ site = ExampleSite
    /\ resolver \in [step : {"fetchSitemap"}, content : ResolverContents,
                     maxUrls : ResolverBudgets, toFetch : {<<>>}, next : {1},
                     allUrls : {<<>>}, fetched : {<<>>}, threw : {FALSE},
                     urls : {<<>>}, queue : {<<>>}]

\* lines 275-283 and 301: everything but the loop over the children
ResolveMain ==
    /\ resolver # Null
    /\ resolver.step = "fetchSitemap"
    /\ \E content \in {resolver.content} :
          resolver' =
             IF content = Null THEN [resolver EXCEPT !.step = "returned"]
             ELSE IF content.kind = "index"
                  THEN IF Len(content.children) = 0
                       THEN [resolver EXCEPT !.step = "returned"]
                       ELSE [resolver EXCEPT
                               !.step = "children",
                               !.toFetch = Slice(content.children, MAX_CHILD_SITEMAPS)]
             ELSE [resolver EXCEPT
                     !.step = "returned",
                     !.urls = Slice(parsePageUrlsFromSitemap(content.locs, baseDomain),
                                    resolver.maxUrls)]
    /\ UNCHANGED <<crawlVars, pureVars, report, twin, agg, gen, pageScore, dom, entry, site>>

\* lines 284-297: one iteration of the loop over toFetch
FetchChild ==
    /\ resolver # Null
    /\ resolver.step = "children"
    /\ resolver.next <= Len(resolver.toFetch)
    /\ Len(resolver.allUrls) < resolver.maxUrls
    /\ resolver' = [resolver EXCEPT
                      !.next = @ + 1,
                      !.fetched = Append(@, resolver.next),
                      !.allUrls = ChildStep(resolver.toFetch[resolver.next], @,
                                            baseDomain, resolver.maxUrls)]
    /\ UNCHANGED <<crawlVars, pureVars, report, twin, agg, gen, pageScore, dom, entry, site>>

\* lines 284-285 and 299: the loop ends or breaks, and allUrls is returned
ReturnAllUrls ==
    /\ resolver # Null
    /\ resolver.step = "children"
    /\ resolver.next > Len(resolver.toFetch) \/ Len(resolver.allUrls) >= resolver.maxUrls
    /\ resolver' = [resolver EXCEPT !.step = "returned", !.urls = resolver.allUrls]
    /\ UNCHANGED <<crawlVars, pureVars, report, twin, agg, gen, pageScore, dom, entry, site>>

\* site-crawler.ts lines 73-91: crawlSite seeds its queue with the result
SeedQueue ==
    /\ resolver # Null
    /\ resolver.step = "returned"
    /\ resolver' = [resolver EXCEPT
                      !.step = "seeded",
                      !.queue = SeedFrontier(startUrl, resolver.urls,
                                             resolver.maxUrls).queue]
    /\ UNCHANGED <<crawlVars, pureVars, report, twin, agg, gen, pageScore, dom, entry, site>>

NextResolver == ResolveMain \/ FetchChild \/ ReturnAllUrls \/ SeedQueue

ResolverSpec == InitResolver /\ [][NextResolver]_vars

\* the URLs of the children that answer, in order
RECURSIVE UrlsOfChildren(_)
UrlsOfChildren(children) ==
    IF children = <<>> THEN <<>>
    ELSE (IF Head(children).kind = "response" /\ Head(children).ok
          THEN Head(children).locs ELSE <<>>) \o UrlsOfChildren(Tail(children))

\* C23: fetchSitemapUrls never throws and returns at most maxUrls URLs; a
\* failed or missing /sitemap.xml yields the empty list; a failed child of
\* an index is skipped and the URLs of the other children are kept; at most
\* 15 children are fetched; and crawlSite then starts its queue with the seed.
C23_ResolverDegrades ==
    resolver # Null =>
        /\ ~resolver.threw
        /\ Len(resolver.allUrls) <= resolver.maxUrls
        /\ Len(resolver.fetched) <= 15
        /\ Range(resolver.fetched) \subseteq 1..15
        /\ resolver.step \in {"returned", "seeded"} =>
              /\ Len(resolver.urls) <= resolver.maxUrls
              /\ resolver.content = Null => resolver.urls = <<>>
              /\ (resolver.content # Null /\ resolver.content.kind = "index") =>
                    resolver.urls =
                        Slice(UrlsOfChildren(Slice(resolver.content.children, 15)),
                              resolver.maxUrls)
        /\ resolver.step = "seeded" =>
              /\ resolver.queue # <<>>
              /\ resolver.queue[1] = startUrl
              /\ resolver.urls = <<>> => resolver.queue = <<startUrl>>

\* an index of more than 15 children whose third child failed: 15 fetches,
\* and the URLs of the other fourteen
C23_Witness ==
    /\ resolver # Null
    /\ resolver.step = "seeded"
    /\ resolver.content # Null
    /\ resolver.content.kind = "index"
    /\ Len(resolver.content.children) > 15
    /\ resolver.content.children[3].kind = "throws"
    /\ Len(resolver.fetched) = 15
    /\ Len(resolver.urls) = 21

(***************************************************************************)
(* Shared state and the batch.                                             *)
(***************************************************************************)
\* C24: the pending queue, the known-URL set, the pages list and the
\* failedPages list are not modified by any step of a batch that leaves a
\* fetch of the batch in flight; they change only once every fetch of the
\* batch has settled.
C24_MutatedBetweenBatches ==
    [][(pc = "batch" /\ inFlight' # {}) =>
          UNCHANGED <<urlQueue, discoveredUrls, crawledPages, failedPages>>]_vars

(***************************************************************************)
(* The politeness delay, for a crawlSite called with or without            *)
(* options.delayMs.                                                        *)
(***************************************************************************)
MaxDelay == 1

DelayOptions == {NotGiven} \cup {Given(ms) : ms \in 0..MaxDelay}

InitDelay == InitWith(DelayOptions)

DelaySpec == InitDelay /\ [][Next]_vars

\* the delay as configured: the given delayMs, or the default
ConfiguredDelay == IF delayMs.given THEN delayMs.ms ELSE DEFAULT_DELAY_MS

\* C25: the controller pauses exactly once before every batch except the
\* first, each time for the configured delayMs (a configured 0 is no pause),
\* and not after the final batch.
C25_PolitenessDelay ==
    /\ \A k \in 1..Len(pauses) : pauses[k] = ConfiguredDelay
    /\ pc = "batch" => Len(pauses) = batchNo - 1
    /\ Returned => Len(pauses) = (IF batchNo = 0 THEN 0 ELSE batchNo - 1)

(***************************************************************************)
(* Order of the frontier.                                                  *)
(***************************************************************************)
IsPrefix(s, t) == Len(s) <= Len(t) /\ SubSeq(t, 1, Len(s)) = s

\* the elements of seq that are in the set, in the order of seq
RECURSIVE Restrict(_, _)
Restrict(seq, set) ==
    IF seq = <<>> THEN <<>>
    ELSE (IF Head(seq) \in set THEN <<Head(seq)>> ELSE <<>>) \o Restrict(Tail(seq), set)

\* every URL enqueued so far, in the order of the queue: those already
\* dequeued, then those pending
EnqueueOrder == dequeued \o urlQueue

\* a step of the loop adds URLs only behind the queue and removes them only at
\* its head
QueueOnlyGrowsBehind ==
    pc \in {"loop", "batch", "sleep"} =>
        /\ IsPrefix(EnqueueOrder, EnqueueOrder')
        /\ IsPrefix(dequeued, dequeued')

\* C26: when the loop starts the queue holds the seed and then sitemap URLs in
\* sitemap order; from then on URLs are only added behind it and removed at
\* its head, so URLs are dequeued in the order they were enqueued and every
\* link-discovered URL after the seed and the sitemap URLs; and at every batch
\* boundary the pages list is the dequeued URLs whose fetch succeeded, in
\* dequeue order.
C26_FifoOrder ==
    /\ []((pc = "loop" /\ batchNo = 0) =>
            /\ dequeued = <<>>
            /\ urlQueue # <<>>
            /\ urlQueue[1] = startUrl
            /\ Tail(urlQueue) = Restrict(sitemapUrls, Range(Tail(urlQueue))))
    /\ [][QueueOnlyGrowsBehind]_vars
    /\ [](pc \in {"loop", "sleep", "done"} =>
            PageUrls = Restrict(dequeued, Range(fetchLog) \ fetchThrew))

\* a crawl that returned a sitemap page and then a link-discovered page,
\* although the later page's fetch completed first
C26_Witness ==
    /\ Returned
    /\ Len(crawledPages) = 2
    /\ Len(callbackLog) = 2
    /\ callbackLog[1][1] = PageUrls[2]
    /\ callbackLog[2][1] = PageUrls[1]
    /\ PageUrls[1] = startUrl
    /\ PageUrls[2] \in Range(sitemapUrls)

(***************************************************************************)
(* A site whose sitemap and pages also name files that are not pages.      *)
(***************************************************************************)
\* https://example.com/a.pdf and https://example.com/b.css
Brochure == Url(ExampleHost, <<"/", "a", ".", "p", "d", "f">>, <<>>, "")
Stylesheet == Url(ExampleHost, <<"/", "b", ".", "c", "s", "s">>, <<>>, "")

AssetSite ==
    [sitemaps |-> { Null,
                    Urlset(<<PageA, Brochure>>),
                    [kind |-> "index",
                     children |-> <<[kind |-> "response", ok |-> TRUE,
                                     locs |-> <<Stylesheet, PageB>>]>>] },
     linkLists |-> { <<>>,
                     <<Link(Stylesheet, TRUE), Link(PageB, TRUE)>>,
                     <<Link(Brochure, TRUE), Link(PagePrivate, TRUE), Link(PageC, TRUE)>> }]

InitAsset ==
    /\ CrawlStart({NotGiven})
    /\ PureIdle
    /\ report = Null
    /\ twin = Null
    /\ agg = Null
    /\ gen = Null
    /\ pageScore = Null
    /\ dom = Null
    /\ entry = Null
    /\ resolver = Null
    /\ site = AssetSite

AssetSpec == InitAsset /\ [][Next]_vars

\* the test of extractInternalUrls, lines 196-198, applied to any URL
IsAsset(url) == IsAssetPath(LowerSeq(ParseUrl(url).path))

\* C27: no URL whose path ends in an asset extension is ever in the queue,
\* drawn from it or handed to crawlPage, whether it came from the sitemap
\* or from a link.
C27_NoAssetFetched ==
    \A u \in Range(urlQueue) \cup Range(dequeued) \cup Range(fetchLog) : ~IsAsset(u)

\* the part that holds: a harvested link to an asset is never offered
C27_LinkedAssetsDropped ==
    \A u \in Range(urlQueue) \cup Range(dequeued) :
        IsAsset(u) => u \in Range(sitemapUrls)

(***************************************************************************)
(* Conservation of the frontier.                                           *)
(***************************************************************************)
\* crawlSite is between two batches, before the first or after the last
AtBatchBoundary == pc \in {"loop", "sleep", "done"}

\* C28: at every batch boundary the known set is as large as the queue and
\* the dequeued URLs together; every dequeued URL is in exactly one of pages,
\* failedPages and the URLs skipped by robots; so at return totalPages is the
\* sum of the pages, the failed, the skipped and the pending URLs, and no URL
\* is both in pages and in failedPages.
C28_FrontierConservation ==
    AtBatchBoundary =>
        /\ Cardinality(discoveredUrls) = Len(urlQueue) + Len(dequeued)
        /\ \A k \in 1..Len(dequeued) :
              Count(PageUrls, dequeued[k]) + Count(failedPages, dequeued[k])
                  + Count(skipped, dequeued[k]) = 1
        /\ Len(dequeued) = Len(crawledPages) + Len(failedPages) + Len(skipped)
        /\ Returned =>
              totalPages = Len(crawledPages) + Len(failedPages) + Len(skipped)
                               + Len(urlQueue)
        /\ Range(PageUrls) \cap Range(failedPages) = {}

\* a crawl returned after drawing a URL of each outcome: a page, a failed URL
\* and a skipped URL
C28_Witness ==
    /\ Returned
    /\ crawledPages # <<>>
    /\ failedPages # <<>>
    /\ skipped # <<>>
    /\ Len(dequeued) >= 3

(***************************************************************************)
(* The aggregation of analyzeSite on page lists in which a key repeats.    *)
(* No analyzer returns such a list (each check reports one outcome per     *)
(* page); the lists show what lines 508-523 do with one.                   *)
(***************************************************************************)
RepeatingLists ==
    { <<TitleFail, TitleFail, HttpsPass>>,
      <<TitlePass, HttpsFail, HttpsFail>> }

RepeatingBatches == SeqsUpTo(PageIssueLists \cup RepeatingLists, MaxBatch) \ {<<>>}

InitRepeating ==
    /\ CrawlIdle
    /\ pc = "analyzeSite"
    /\ PureIdle
    /\ report = Null
    /\ twin = Null
    /\ gen = Null
    /\ pageScore = Null
    /\ dom = Null
    /\ entry = Null
    /\ resolver = Null
    /\ site = ExampleSite
    /\ agg \in [pages : RepeatingBatches, step : {"pages"}, done : {0},
                pageAnalyses : {<<>>}, allIssuesByCheck : {<<>>},
                siteWideIssues : {<<>>}, scores : {Null}]

RepeatingSpec == InitRepeating /\ [][NextAgg]_vars

\* no page of the batch reports a key twice
NoRepeatedKey(pages) ==
    \A p \in 1..Len(pages) : \A j \in 1..Len(pages[p]) : \A k \in 1..Len(pages[p]) :
        Key(pages[p][j]) = Key(pages[p][k]) => j = k

\* how many entries of the batch's issue lists have the key
Occurrences(pages, key) ==
    Cardinality(UNION {{<<p, k>> : k \in {j \in 1..Len(pages[p]) : Key(pages[p][j]) = key}} :
                           p \in 1..Len(pages)})

IssueInBounds(i) ==
    /\ 1 <= i.affectedPages /\ i.affectedPages <= i.totalPages
    /\ 0 <= i.percentage /\ i.percentage <= 100

ScoresInBounds(scores) ==
    /\ scores.overall \in 0..100
    /\ scores.basic \in 0..100
    /\ scores.intermediate \in 0..100
    /\ scores.advanced \in 0..100

C30_NormalizeIdempotent ==
    pc = "norm_done" =>
        /\ normalizeUrl(n1) = n1
        /\ normalizeUrl(n2) = n2
        /\ \A n \in discoveredUrls : normalizeUrl(n) \in discoveredUrls

\* the part that holds: for a URL without an upper-case tracking key the
\* form is a fixed point
C30_IdempotentOnLowerKeys ==
    pc = "norm_done" =>
        ((\A k \in 1..Len(u1.query) : ToLowerCase(u1.query[k][1]) \in TrackingParams
                                         => u1.query[k][1] \in TrackingParams)
            => normalizeUrl(n1) = n1)

=============================================================================
